---------------------------- MODULE Spec2Model ----------------------------
(***************************************************************************)
(* Scope gating and human approval for an autonomous coding agent.         *)
(*                                                                         *)
(*   ScopeValidator   (src/src/core/intent/ScopeValidator.ts)   pure       *)
(*   ApprovalManager  (src/src/core/intent/ApprovalManager.ts)  workflow   *)
(*   IntentHookEngine (src/unnamed/part_004)                    gate       *)
(*                                                                         *)
(* Strings the code inspects character by character (paths, patterns) are  *)
(* sequences of one-character strings.  Wall-clock stamps (timestamp,      *)
(* logged_at) are written by the code and read by none of it; they are not *)
(* carried in the records.                                                 *)
(***************************************************************************)
EXTENDS Integers, Sequences, FiniteSets, TLC

(***************************************************************************)
(* Bounds of the model.                                                    *)
(***************************************************************************)
NumIds == 2
MaxLog == 3
NumCallers == 2

\* An optional value (a field that may be undefined, a reference that may be
\* null) is a sequence of at most one element.
Undefined == <<>>
Def(v) == <<v>>
IsDef(o) == o # <<>>
Val(o) == o[1]

(***************************************************************************)
(* ScopeValidator                                                          *)
(***************************************************************************)
SLASH == "/"
BACKSLASH == "\\"

\* a replace without the g flag: the first backslash only
NormalizeSeparators_FirstOnly(s) ==
    [k \in DOMAIN s |->
        IF s[k] = BACKSLASH /\ \A j \in 1..(k - 1) : s[j] # BACKSLASH
        THEN SLASH ELSE s[k]]

\* String.prototype.replace(/\\/g, "/")
NormalizeSeparators(s) ==
    [k \in DOMAIN s |-> IF s[k] = BACKSLASH THEN SLASH ELSE s[k]]

StartsWith(s, prefix) ==
    /\ Len(prefix) <= Len(s)
    /\ SubSeq(s, 1, Len(prefix)) = prefix

EndsWithSlash(s) == Len(s) > 0 /\ s[Len(s)] = SLASH

\* the placeholder globToRegex substitutes for "**"
DOUBLE_STAR ==
    <<"_", "_", "D", "O", "U", "B", "L", "E", "_", "S", "T", "A", "R", "_", "_">>

\* pattern.replace(/\*\*/g, doubleStar): leftmost, non-overlapping
RECURSIVE ReplaceDoubleStar(_)
ReplaceDoubleStar(g) ==
    IF g = <<>> THEN <<>>
    ELSE IF Len(g) >= 2 /\ g[1] = "*" /\ g[2] = "*"
         THEN DOUBLE_STAR \o ReplaceDoubleStar(SubSeq(g, 3, Len(g)))
         ELSE <<g[1]>> \o ReplaceDoubleStar(Tail(g))

\* A compiled expression is a sequence of atoms:
\*   [k |-> "lit", c |-> ch]   ch itself (escaped where the code escapes it)
\*   [k |-> "star"]            [^/]*
\*   [k |-> "one"]             [^/]
\*   [k |-> "any"]             .*
Lit(ch) == [k |-> "lit", c |-> ch]
StarAtom == [k |-> "star", c |-> ""]
OneAtom == [k |-> "one", c |-> ""]
AnyAtom == [k |-> "any", c |-> ""]

\* escaping, then "*" -> [^/]*, then "?" -> [^/], one character at a time
AtomOf(ch) ==
    IF ch = "*" THEN StarAtom
    ELSE IF ch = "?" THEN OneAtom
    ELSE Lit(ch)

DoubleStarLits == [k \in 1..Len(DOUBLE_STAR) |-> Lit(DOUBLE_STAR[k])]

\* pattern.replace(new RegExp(doubleStar, "g"), ".*")
RECURSIVE ReplacePlaceholder(_)
ReplacePlaceholder(atoms) ==
    IF atoms = <<>> THEN <<>>
    ELSE IF StartsWith(atoms, DoubleStarLits)
         THEN <<AnyAtom>> \o
              ReplacePlaceholder(SubSeq(atoms, Len(DOUBLE_STAR) + 1, Len(atoms)))
         ELSE <<atoms[1]>> \o ReplacePlaceholder(Tail(atoms))

globToRegex(glob) ==
    LET placed == ReplaceDoubleStar(glob)
        atoms  == [k \in DOMAIN placed |-> AtomOf(placed[k])]
    IN  ReplacePlaceholder(atoms)

\* "." of a JavaScript regular expression matches no line terminator
LineTerminators == {"\n", "\r"}

\* new RegExp("^" + pattern + "$").test(s): atoms from position a match s from position j
RECURSIVE RegexMatch(_, _, _, _)
RegexMatch(atoms, a, s, j) ==
    IF a > Len(atoms) THEN j > Len(s)
    ELSE LET at == atoms[a] IN
         CASE at.k = "lit"  -> /\ j <= Len(s)
                               /\ s[j] = at.c
                               /\ RegexMatch(atoms, a + 1, s, j + 1)
           [] at.k = "one"  -> /\ j <= Len(s)
                               /\ s[j] # SLASH
                               /\ RegexMatch(atoms, a + 1, s, j + 1)
           [] at.k = "star" -> \/ RegexMatch(atoms, a + 1, s, j)
                               \/ /\ j <= Len(s)
                                  /\ s[j] # SLASH
                                  /\ RegexMatch(atoms, a, s, j + 1)
           [] at.k = "any"  -> \/ RegexMatch(atoms, a + 1, s, j)
                               \/ /\ j <= Len(s)
                                  /\ s[j] \notin LineTerminators
                                  /\ RegexMatch(atoms, a, s, j + 1)

RegexTest(atoms, s) == RegexMatch(atoms, 1, s, 1)

\* a matchesPattern that compiles a directory pattern as the glob "<pattern>**"
matchesPattern_DirByGlob(filePath, scopePattern) ==
    LET normalized == NormalizeSeparators(scopePattern) IN
    IF filePath = normalized THEN TRUE
    ELSE IF EndsWithSlash(normalized)
         THEN RegexTest(globToRegex(normalized \o <<"*", "*">>), filePath)
         ELSE RegexTest(globToRegex(normalized), filePath)

matchesPattern(filePath, scopePattern) ==
    LET normalized == NormalizeSeparators(scopePattern) IN
    IF filePath = normalized THEN TRUE
    ELSE IF EndsWithSlash(normalized) THEN StartsWith(filePath, normalized)
    ELSE RegexTest(globToRegex(normalized), filePath)

\* ScopeValidationResult; an absent optional field is Undefined
ScopeResult(within, reason, allowed, attempted) ==
    [isWithinScope |-> within, reason |-> reason,
     allowedPaths |-> allowed, attemptedPath |-> attempted]

\* an isPathInScope that tries the first pattern of the list only
isPathInScope_FirstPatternOnly(filePath, ownedScope) ==
    IF ownedScope = <<>>
    THEN ScopeResult(FALSE, Def(<<"No scope defined for this intent">>), Undefined,
                     Def(filePath))
    ELSE IF matchesPattern(NormalizeSeparators(filePath), ownedScope[1])
         THEN ScopeResult(TRUE, Undefined, Def(ownedScope), Undefined)
         ELSE ScopeResult(FALSE,
                          Def(<<"File is outside the intent's owned_scope", filePath>>),
                          Def(ownedScope), Def(filePath))

\* an isPathInScope that compares the path as given, separators not normalized
isPathInScope_Unnormalized(filePath, ownedScope) ==
    IF ownedScope = <<>>
    THEN ScopeResult(FALSE, Def(<<"No scope defined for this intent">>), Undefined,
                     Def(filePath))
    ELSE IF \E k \in DOMAIN ownedScope : matchesPattern(filePath, ownedScope[k])
         THEN ScopeResult(TRUE, Undefined, Def(ownedScope), Undefined)
         ELSE ScopeResult(FALSE,
                          Def(<<"File is outside the intent's owned_scope", filePath>>),
                          Def(ownedScope), Def(filePath))

isPathInScope(filePath, ownedScope) ==
    IF ownedScope = <<>>
    THEN ScopeResult(FALSE, Def(<<"No scope defined for this intent">>), Undefined,
                     Def(filePath))
    ELSE IF \E k \in DOMAIN ownedScope :
                matchesPattern(NormalizeSeparators(filePath), ownedScope[k])
         THEN ScopeResult(TRUE, Undefined, Def(ownedScope), Undefined)
         ELSE ScopeResult(FALSE,
                          Def(<<"File is outside the intent's owned_scope", filePath>>),
                          Def(ownedScope), Def(filePath))

\* an arePathsInScope that reports the first offending path only
arePathsInScope_FirstOnly(filePaths, ownedScope) ==
    LET OutOf(p) == ~isPathInScope(p, ownedScope).isWithinScope
        outOfScope == SelectSeq(filePaths, OutOf)
    IN  IF \A k \in DOMAIN filePaths : isPathInScope(filePaths[k], ownedScope).isWithinScope
        THEN ScopeResult(TRUE, Undefined, Def(ownedScope), Undefined)
        ELSE ScopeResult(FALSE,
                         Def(<<"file(s) outside scope", 1, <<outOfScope[1]>>>>),
                         Def(ownedScope), Def(outOfScope[1]))

arePathsInScope(filePaths, ownedScope) ==
    LET OutOf(p) == ~isPathInScope(p, ownedScope).isWithinScope
        outOfScope == SelectSeq(filePaths, OutOf)  \* Array.prototype.filter
    IN  IF \A k \in DOMAIN filePaths : isPathInScope(filePaths[k], ownedScope).isWithinScope
        THEN ScopeResult(TRUE, Undefined, Def(ownedScope), Undefined)
        ELSE ScopeResult(FALSE,
                         Def(<<"file(s) outside scope", Len(outOfScope), outOfScope>>),
                         Def(ownedScope), Def(outOfScope[1]))

\* String.prototype.split(separator) for a separator of one character: the
\* pieces between the occurrences of the separator, empty pieces included
Split(text, separator) ==
    LET breaks == {k \in DOMAIN text : text[k] = separator}
        n == Cardinality(breaks) + 1
        Break(m) == IF m = 0 THEN 0
                    ELSE IF m = n THEN Len(text) + 1
                    ELSE CHOOSE k \in breaks : Cardinality({j \in breaks : j <= k}) = m
    IN  [m \in 1..n |-> SubSeq(text, Break(m - 1) + 1, Break(m) - 1)]

\* \s of a JavaScript regular expression, as far as diffs hold it
WhiteSpace == {" ", "\t", "\n", "\r", "\f"}

\* (.+) up to $: one or more characters, none a line terminator
DotPlus(s) == s # <<>> /\ \A k \in DOMAIN s : s[k] \notin LineTerminators

\* line.match(/^[+-]{3}\s[ab]\/(.+)$/): the captured group, or no match
FileHeaderMatch(line) ==
    IF /\ Len(line) >= 7
       /\ \A k \in 1..3 : line[k] \in {"+", "-"}
       /\ line[4] \in WhiteSpace
       /\ line[5] \in {"a", "b"}
       /\ line[6] = SLASH
       /\ DotPlus(SubSeq(line, 7, Len(line)))
    THEN Def(SubSeq(line, 7, Len(line)))
    ELSE Undefined

GitPrefix == <<"d", "i", "f", "f", " ", "-", "-", "g", "i", "t", " ", "a", "/">>
GitSeparator == <<" ", "b", "/">>

\* line.match(/^diff --git a\/(.+) b\/.+$/): the first group is greedy, so it ends
\* at the last " b/" that leaves something after it
GitHeaderMatch(line) ==
    LET rest == SubSeq(line, Len(GitPrefix) + 1, Len(line))
        Cuts == {k \in 2..(Len(rest) - 3) :
                    SubSeq(rest, k, k + 2) = GitSeparator}
        Last == CHOOSE k \in Cuts : \A j \in Cuts : j <= k
    IN  IF StartsWith(line, GitPrefix) /\ DotPlus(rest) /\ Cuts # {}
        THEN Def(SubSeq(rest, 1, Last - 1))
        ELSE Undefined

\* Set.prototype.add on a Set kept in insertion order
SetAdd(files, match) ==
    IF ~IsDef(match) \/ \E k \in DOMAIN files : files[k] = Val(match)
    THEN files ELSE Append(files, Val(match))

RECURSIVE ExtractFrom(_, _)
ExtractFrom(lines, files) ==
    IF lines = <<>> THEN files
    ELSE ExtractFrom(Tail(lines),
                     SetAdd(SetAdd(files, FileHeaderMatch(lines[1])),
                            GitHeaderMatch(lines[1])))

extractFilesFromDiff(diff) == ExtractFrom(Split(diff, "\n"), <<>>)


(***************************************************************************)
(* Data                                                                    *)
(***************************************************************************)
\* file paths an agent proposes to change
PathAuth ==
    <<"s", "r", "c", "/", "a", "u", "t", "h", "/", "m", "i", "d", "d", "l",
      "e", "w", "a", "r", "e", ".", "t", "s">>
PathReadme ==
    <<"R", "E", "A", "D", "M", "E", ".", "m", "d">>
PathModule ==
    <<"s", "r", "c", "/", "a", "u", "t", "h", "/", "m", "o", "d", "u", "l",
      "e", ".", "t", "s">>
PathConfig ==
    <<"s", "r", "c", "/", "c", "o", "n", "f", "i", "g", "/", "a", "p", "p",
      ".", "t", "s">>

\* scope patterns
ScopeAuthDir ==
    <<"s", "r", "c", "/", "a", "u", "t", "h", "/">>
ScopeAuthService ==
    <<"s", "r", "c", "/", "s", "e", "r", "v", "i", "c", "e", "s", "/", "a",
      "u", "t", "h", ".", "t", "s">>
ScopeAuthTests ==
    <<"t", "e", "s", "t", "s", "/", "a", "u", "t", "h", "/">>
ScopeConfigDir ==
    <<"s", "r", "c", "/", "c", "o", "n", "f", "i", "g", "/">>
ScopeConstantsDir ==
    <<"s", "r", "c", "/", "c", "o", "n", "s", "t", "a", "n", "t", "s", "/">>
ScopeJsGlob ==
    <<"s", "r", "c", "/", "*", "*", "/", "*", ".", "j", "s">>

\* paths and patterns the functions of ScopeValidator are applied to
PathOk ==
    <<"s", "r", "c", "/", "a", "u", "t", "h", "/", "o", "k", ".", "t", "s">>
PathBad ==
    <<"s", "r", "c", "/", "d", "b", "/", "b", "a", "d", ".", "t", "s">>
PathNestedHooks ==
    <<"s", "r", "c", "/", "a", "u", "t", "h", "/", "s", "t", "r", "a", "t",
      "e", "g", "i", "e", "s", "/", "h", "o", "o", "k", "s", ".", "t", "s">>
PathTopHooks ==
    <<"s", "r", "c", "/", "h", "o", "o", "k", "s", ".", "t", "s">>
PathHook ==
    <<"s", "r", "c", "/", "a", "u", "t", "h", "/", "h", "o", "o", "k", ".",
      "t", "s">>
PathSubHook ==
    <<"s", "r", "c", "/", "a", "u", "t", "h", "/", "s", "u", "b", "/", "h",
      "o", "o", "k", ".", "t", "s">>
PathSibling ==
    <<"s", "r", "c", "/", "a", "u", "t", "h", "-", "v", "2", "/", "x", ".",
      "t", "s">>
PathBackslash ==
    <<"s", "r", "c", "\\", "a", "u", "t", "h", "\\", "o", "k", ".", "t", "s">>
PathStarDir ==
    <<"s", "r", "c", "/", "*", "/", "x", ".", "t", "s">>
PathNewline ==
    <<"s", "r", "c", "/", "a", "\n", "b", "/", "h", "o", "o", "k", "s", ".",
      "t", "s">>
PathTraversal ==
    <<"s", "r", "c", "/", "a", "u", "t", "h", "/", ".", ".", "/", ".", ".",
      "/", "e", "t", "c", "/", "p", "a", "s", "s", "w", "d">>
ScopeDbDir ==
    <<"s", "r", "c", "/", "d", "b", "/">>
ScopeStarDir ==
    <<"s", "r", "c", "/", "*", "/">>
ScopeHooksGlob ==
    <<"s", "r", "c", "/", "*", "*", "/", "h", "o", "o", "k", "s", ".", "t",
      "s">>
ScopeHookGlob ==
    <<"s", "r", "c", "/", "*", "/", "h", "o", "o", "k", ".", "t", "s">>
ScopeQuestionGlob ==
    <<"s", "r", "c", "/", "a", "u", "t", "h", "/", "h", "o", "?", "k", ".",
      "t", "s">>
ScopeOkFile ==
    <<"s", "r", "c", "/", "a", "u", "t", "h", "/", "o", "k", ".", "t", "s">>
ScopePlaceholder ==
    <<"_", "_", "D", "O", "U", "B", "L", "E", "_", "S", "T", "A", "R", "_",
      "_">>

\* lines of unified diffs
LineMinusAuth ==
    <<"-", "-", "-", " ", "a", "/", "s", "r", "c", "/", "a", "u", "t", "h",
      "/", "m", "i", "d", "d", "l", "e", "w", "a", "r", "e", ".", "t", "s">>
LinePlusAuth ==
    <<"+", "+", "+", " ", "b", "/", "s", "r", "c", "/", "a", "u", "t", "h",
      "/", "m", "i", "d", "d", "l", "e", "w", "a", "r", "e", ".", "t", "s">>
LinePlusService ==
    <<"+", "+", "+", " ", "b", "/", "s", "r", "c", "/", "s", "e", "r", "v",
      "i", "c", "e", "s", "/", "a", "u", "t", "h", ".", "t", "s">>
LineGitFile ==
    <<"d", "i", "f", "f", " ", "-", "-", "g", "i", "t", " ", "a", "/", "s",
      "r", "c", "/", "f", "i", "l", "e", ".", "t", "s", " ", "b", "/", "s",
      "r", "c", "/", "f", "i", "l", "e", ".", "t", "s">>
LineIndex ==
    <<"i", "n", "d", "e", "x", " ", "1", "2", "3", ".", ".", "4", "5", "6",
      " ", "1", "0", "0", "6", "4", "4">>
LineHunk ==
    <<"@", "@", " ", "-", "1", ",", "5", " ", "+", "1", ",", "6", " ", "@",
      "@">>
LineDevNull ==
    <<"-", "-", "-", " ", "/", "d", "e", "v", "/", "n", "u", "l", "l">>
LineReverseMinus ==
    <<"-", "-", "-", " ", "b", "/", "s", "r", "c", "/", "f", "i", "l", "e",
      ".", "t", "s">>
LinePlusAuthCR ==
    <<"+", "+", "+", " ", "b", "/", "s", "r", "c", "/", "a", "u", "t", "h",
      "/", "m", "i", "d", "d", "l", "e", "w", "a", "r", "e", ".", "t", "s",
      "\r">>

DiffLines ==
    {LineMinusAuth, LinePlusAuth, LinePlusService, LineGitFile, LineIndex, LineHunk,
     LineDevNull, LineReverseMinus, LinePlusAuthCR}

\* a template literal of several lines: the lines with "\n" between them
RECURSIVE JoinLines(_)
JoinLines(lines) ==
    IF lines = <<>> THEN <<>>
    ELSE IF Len(lines) = 1 THEN lines[1]
    ELSE lines[1] \o <<"\n">> \o JoinLines(Tail(lines))

\* diffs of at most MaxDiffLines lines
MaxDiffLines == 3
Diffs ==
    {JoinLines(lines) :
        lines \in UNION {[1..n -> DiffLines] : n \in 0..MaxDiffLines}}

FnPaths ==
    {PathOk, PathBad, PathNestedHooks, PathTopHooks, PathHook, PathSubHook,
     PathSibling, PathBackslash, PathStarDir, PathNewline, PathTraversal}
FnPathLists ==
    {<<>>} \cup {<<p>> : p \in FnPaths} \cup
    {<<p, q>> : p, q \in {PathOk, PathBad, PathBackslash}}

FnPatterns ==
    {ScopeAuthDir, ScopeDbDir, ScopeStarDir, ScopeHooksGlob, ScopeHookGlob,
     ScopeQuestionGlob, ScopeOkFile, ScopePlaceholder}
FnPatternLists ==
    {<<>>} \cup {<<g>> : g \in FnPatterns} \cup
    {<<ScopeAuthDir, ScopeDbDir>>, <<ScopeDbDir, ScopeHooksGlob>>,
     <<ScopeHookGlob, ScopeOkFile>>}

Intent(id, name, status, scope, constraints, criteria) ==
    [id |-> id, name |-> name, status |-> status, owned_scope |-> scope,
     constraints |-> constraints, acceptance_criteria |-> criteria]

\* .orchestration/active_intents.yaml as loadIntents reads it: the file as first
\* written (version 1) and after an edit by its owner (version 2: the scope of
\* INT-001 replaced by a glob, INT-002 retired)
RegistryVersions == {1, 2}
\* ids a caller may cite
IntentIds == {"INT-001", "INT-002", "constructor"}

loadIntents(version) ==
    IF version = 1
    THEN [x \in {"INT-001", "INT-002"} |->
            IF x = "INT-001"
            THEN Intent(x, "Refactor Auth Module", "active",
                        <<ScopeAuthDir, ScopeAuthService, ScopeAuthTests>>,
                        <<"Use JWT instead of Session",
                          "Preserve backward compatibility">>,
                        <<"All tests pass", "Token validation works">>)
            ELSE Intent(x, "Update Config System", "active",
                        <<ScopeConfigDir, ScopeConstantsDir>>,
                        <<"Maintain backwards compat", "Support env vars">>,
                        <<"Config validation tests pass">>)]
    ELSE [x \in {"INT-001"} |->
            Intent(x, "Refactor Auth Module", "active",
                   <<ScopeJsGlob>>,
                   <<"Use JWT instead of Session",
                     "Preserve backward compatibility">>,
                   <<"All tests pass", "Token validation works">>)]

\* tool identifiers a caller may present to the gate
Tools == {"write_file", "apply_diff", "execute_command", "write_to_file",
          "request_human_approval", "select_active_intent"}

\* The two ApprovalManager objects of the process: the one IntentHookEngine owns
\* and the exported singleton.  Both work on .orchestration/approval_log.jsonl.
Engine == "engine"
Shared == "shared"
Insts == {Engine, Shared}

\* an id made of the clock reading alone
RequestIdOf_ClockOnly(now, rand) == <<"approval", now, 0>>

\* `approval-${Date.now()}-${Math.random().toString(36).substr(2, 9)}`
RequestIdOf(now, rand) == <<"approval", now, rand>>
RequestIds == {RequestIdOf(1, r) : r \in 1..NumIds}

ApprovalRequest(id, summary, diff, files, intentId, turnId) ==
    [request_id |-> id, change_summary |-> summary, diff |-> diff,
     files_affected |-> files, intent_id |-> intentId, turn_id |-> turnId]

\* ApprovalManager.createRequest; now is what Date.now() returns in the call and
\* rand the nine digits Math.random().toString(36).substr(2, 9) yields in it
createRequest(changeSummary, diff, filesAffected, intentId, turnId, now, rand) ==
    ApprovalRequest(RequestIdOf(now, rand), Def(changeSummary), Def(diff),
                    Def(filesAffected), intentId, turnId)

\* { request_id: requestId }, the stand-in recordDecision logs for a request it
\* does not hold
BareRequest(id) ==
    ApprovalRequest(id, Undefined, Undefined, Undefined, Undefined, Undefined)

ApprovalDecision(id, approved, approver, notes, override) ==
    [request_id |-> id, approved |-> approved, approver |-> approver,
     approver_notes |-> notes, requires_override |-> override]

\* what the human approver may answer: (approved, approver, approverNotes, requiresOverride)
DecisionInputs ==
    { <<TRUE, "alice@example.com", Def("Approved critical fix"), Def(TRUE)>>,
      <<FALSE, "bob@example.com", Def("Scope too broad"), Undefined>> }

\* requests submitted to the singleton directly
DirectRequests ==
    { createRequest(<<"Refactor auth module">>, "diff content here", <<PathModule>>,
                    Def("INT-001"), Def("turn-123"), 1, r) : r \in 1..NumIds }

\* ApprovalLogEntry: the request fields and, on a decision record, the decision
LogEntry(request, decision) ==
    [request_id |-> request.request_id, change_summary |-> request.change_summary,
     diff |-> request.diff, files_affected |-> request.files_affected,
     intent_id |-> request.intent_id, turn_id |-> request.turn_id,
     decision |-> decision]

(***************************************************************************)
(* State                                                                   *)
(***************************************************************************)
VARIABLES
    registry,               \* version of active_intents.yaml on disk
    currentSessionIntent,   \* IntentHookEngine.currentSessionIntent (null: Undefined)
    pendingRequests,        \* per ApprovalManager: Map request_id -> ApprovalRequest
    approvedRequests,       \* per ApprovalManager: Map request_id -> ApprovalDecision
    log,                    \* the lines of approval_log.jsonl (no file: <<>>)
    callers,                \* the tasks that called submitForApproval
    fsFails,                \* whether file-system calls on the log throw
    orchestrationDir,       \* whether the directory .orchestration exists
    lastOp                  \* the operation that produced this state, and its result

vars == <<registry, currentSessionIntent, pendingRequests, approvedRequests, log,
          callers, fsFails, orchestrationDir, lastOp>>

Callers == 1..NumCallers

\* op: the operation; inst, id: the ApprovalManager and request id it was called
\* with; ret: what it returned (a resumed caller: what its promise resolved to);
\* caller: the task that was suspended or resumed (0: none)
Op(op, inst, id, ret) ==
    [op |-> op, inst |-> inst, id |-> id, ret |-> ret, caller |-> 0]
CallerOp(op, inst, id, ret, c) ==
    [op |-> op, inst |-> inst, id |-> id, ret |-> ret, caller |-> c]

IdleCaller == [pc |-> "idle", via |-> "", inst |-> "", id |-> Undefined]

\* Map.has / Map.get / Map.set / Map.delete
Has(map, key) == key \in DOMAIN map
MapSet(map, key, value) ==
    [x \in DOMAIN map \cup {key} |-> IF x = key THEN value ELSE map[x]]
MapDelete(map, key) == [x \in DOMAIN map \ {key} |-> map[x]]
EmptyMap == [x \in {} |-> Undefined]


(***************************************************************************)
(* ApprovalManager                                                         *)
(***************************************************************************)
\* fs.appendFileSync(approvalLogPath, JSON.stringify(entry) + "\n") inside try/catch
AppendLine(file, entry) ==
    IF fsFails \/ ~orchestrationDir THEN file ELSE Append(file, entry)

logRequest(file, request) == AppendLine(file, LogEntry(request, Undefined))

\* a logDecision that records the decision under the request id alone
logDecision_IdOnly(file, request, decision) ==
    AppendLine(file, LogEntry(BareRequest(request.request_id), Def(decision)))

\* a logDecision that rewrites the request's own line instead of adding one
logDecision_InPlace(file, request, decision) ==
    IF \E k \in DOMAIN file : file[k] = LogEntry(request, Undefined)
    THEN [k \in DOMAIN file |->
            IF file[k] = LogEntry(request, Undefined)
            THEN LogEntry(request, Def(decision)) ELSE file[k]]
    ELSE AppendLine(file, LogEntry(request, Def(decision)))

\* a logDecision that writes nothing for a request the pending Map does not hold
logDecision_KnownOnly(file, request, decision) ==
    IF IsDef(request.change_summary)
    THEN AppendLine(file, LogEntry(request, Def(decision))) ELSE file

logDecision(file, request, decision) ==
    AppendLine(file, LogEntry(request, Def(decision)))

\* the Map loadApprovalLog builds from the lines of the log, first line to last
RECURSIVE ReplayLog(_, _)
ReplayLog(lines, map) ==
    IF lines = <<>> THEN map
    ELSE ReplayLog(Tail(lines),
                   IF IsDef(lines[1].decision)
                   THEN MapSet(map, lines[1].request_id, Val(lines[1].decision))
                   ELSE map)

\* a loadApprovalLog that keeps the first decision it reads for an id
loadApprovalLog_FirstWins(file) ==
    LET First(id) == CHOOSE k \in DOMAIN file :
                        /\ file[k].request_id = id /\ IsDef(file[k].decision)
                        /\ \A j \in 1..(k - 1) :
                              ~(file[j].request_id = id /\ IsDef(file[j].decision))
        ids == {file[k].request_id : k \in {j \in DOMAIN file : IsDef(file[j].decision)}}
    IN  [id \in ids |-> Val(file[First(id)].decision)]

loadApprovalLog(file) == IF fsFails THEN EmptyMap ELSE ReplayLog(file, EmptyMap)

\* queries
getPendingRequest(i, requestId) ==
    IF Has(pendingRequests[i], requestId)
    THEN Def(pendingRequests[i][requestId]) ELSE Undefined

getDecision(i, requestId) ==
    IF Has(approvedRequests[i], requestId)
    THEN Def(approvedRequests[i][requestId]) ELSE Undefined

isApproved(i, requestId) ==
    LET decision == getDecision(i, requestId) IN
    IsDef(decision) /\ Val(decision).approved = TRUE

requiresOverride(i, requestId) ==
    LET decision == getDecision(i, requestId) IN
    IsDef(decision) /\ Val(decision).requires_override = Def(TRUE)

getAllApprovals == IF fsFails THEN <<>> ELSE log

getApprovalsByIntent(intentId) ==
    LET OfIntent(entry) == entry.intent_id = Def(intentId)
    IN  IF fsFails THEN <<>> ELSE SelectSeq(log, OfIntent)

getApprovalsByTurn(turnId) ==
    LET OfTurn(entry) == entry.turn_id = Def(turnId)
    IN  IF fsFails THEN <<>> ELSE SelectSeq(log, OfTurn)

\* room for one more line within the bound of the model
LogHasRoom == Len(log) < MaxLog

\* submitForApproval, up to the point where the promise is returned: the caller
\* is suspended from here on and the interval timer is armed
Suspend(c, via, i, request) ==
    /\ callers[c].pc = "idle"
    /\ LogHasRoom
    /\ pendingRequests' =
         [pendingRequests EXCEPT ![i] = MapSet(@, request.request_id, request)]
    /\ log' = logRequest(log, request)
    /\ callers' = [callers EXCEPT ![c] =
                     [pc |-> "suspended", via |-> via, inst |-> i,
                      id |-> request.request_id]]
    /\ lastOp' = CallerOp(via, i, request.request_id, Undefined, c)
    /\ UNCHANGED <<registry, currentSessionIntent, approvedRequests, fsFails, orchestrationDir>>

SubmitForApproval(c, request) == Suspend(c, "submitForApproval", Shared, request)

\* a resolution whose override flag defaults to true (?? true)
Resolution_DefaultsToOverride(via, decision) ==
    IF via = "requestApprovalForOutOfScope"
    THEN [approved |-> decision.approved,
          requiresOverride |-> IF IsDef(decision.requires_override)
                               THEN Val(decision.requires_override) ELSE TRUE]
    ELSE decision

\* a resolution that never reports the override flag
Resolution_NoOverride(via, decision) ==
    IF via = "requestApprovalForOutOfScope"
    THEN [approved |-> decision.approved, requiresOverride |-> FALSE]
    ELSE decision

\* what the awaiting call hands back once the promise resolves
Resolution(via, decision) ==
    IF via = "requestApprovalForOutOfScope"
    THEN [approved |-> decision.approved,
          requiresOverride |-> IF IsDef(decision.requires_override)
                               THEN Val(decision.requires_override) ELSE FALSE]
    ELSE decision

\* a poll that takes the decision out of the decided Map as it resumes the caller
Poll_ConsumesDecision(c) ==
    LET i == callers[c].inst
        id == callers[c].id
    IN  /\ callers[c].pc = "suspended"
        /\ Has(approvedRequests[i], id)
        /\ pendingRequests' = [pendingRequests EXCEPT ![i] = MapDelete(@, id)]
        /\ approvedRequests' = [approvedRequests EXCEPT ![i] = MapDelete(@, id)]
        /\ callers' = [callers EXCEPT ![c] = IdleCaller]
        /\ lastOp' = CallerOp("resolve", i, id,
                               Def(Resolution(callers[c].via, approvedRequests[i][id])), c)
        /\ UNCHANGED <<registry, currentSessionIntent, log, fsFails, orchestrationDir>>

\* a poll that takes any stored decision for the one it waits for
Poll_AnyDecision(c) ==
    LET i == callers[c].inst
        id == callers[c].id
    IN  /\ callers[c].pc = "suspended"
        /\ \E other \in DOMAIN approvedRequests[i] :
              /\ pendingRequests' = [pendingRequests EXCEPT ![i] = MapDelete(@, id)]
              /\ callers' = [callers EXCEPT ![c] = IdleCaller]
              /\ lastOp' = CallerOp("resolve", i, id,
                                     Def(Resolution(callers[c].via,
                                                    approvedRequests[i][other])), c)
        /\ UNCHANGED <<registry, currentSessionIntent, approvedRequests, log, fsFails, orchestrationDir>>

\* one firing of the 100 ms interval callback of caller c that finds a decision
\* (a firing that finds none changes nothing): the timer is cleared, the request
\* leaves the pending Map and the caller's promise resolves, which ends the call
Poll(c) ==
    LET i == callers[c].inst
        id == callers[c].id
    IN  /\ callers[c].pc = "suspended"
        /\ Has(approvedRequests[i], id)
        /\ pendingRequests' = [pendingRequests EXCEPT ![i] = MapDelete(@, id)]
        /\ callers' = [callers EXCEPT ![c] = IdleCaller]
        /\ lastOp' = CallerOp("resolve", i, id,
                               Def(Resolution(callers[c].via, approvedRequests[i][id])), c)
        /\ UNCHANGED <<registry, currentSessionIntent, approvedRequests, log, fsFails, orchestrationDir>>

\* the request recordDecision logs the decision with
RequestContext(i, requestId) ==
    IF Has(pendingRequests[i], requestId)
    THEN pendingRequests[i][requestId] ELSE BareRequest(requestId)

\* a recordDecision that keeps the first decision stored for an id
recordDecision_FirstWins(i, requestId, approved, approver, approverNotes, override) ==
    LET decision == ApprovalDecision(requestId, approved, approver, approverNotes,
                                     override)
        kept == IF Has(approvedRequests[i], requestId)
                THEN approvedRequests[i][requestId] ELSE decision
    IN  /\ LogHasRoom
        /\ approvedRequests' = [approvedRequests EXCEPT ![i] = MapSet(@, requestId, kept)]
        /\ log' = logDecision(log, RequestContext(i, requestId), decision)
        /\ lastOp' = Op("recordDecision", i, requestId, Def(decision))
        /\ UNCHANGED <<registry, currentSessionIntent, pendingRequests, callers, fsFails, orchestrationDir>>

\* a recordDecision that rebuilds the decided Map around the one decision
recordDecision_Rebuilds(i, requestId, approved, approver, approverNotes, override) ==
    LET decision == ApprovalDecision(requestId, approved, approver, approverNotes,
                                     override)
    IN  /\ LogHasRoom
        /\ approvedRequests' =
              [approvedRequests EXCEPT ![i] = MapSet(EmptyMap, requestId, decision)]
        /\ log' = logDecision(log, RequestContext(i, requestId), decision)
        /\ lastOp' = Op("recordDecision", i, requestId, Def(decision))
        /\ UNCHANGED <<registry, currentSessionIntent, pendingRequests, callers, fsFails, orchestrationDir>>

\* a recordDecision that empties the pending Map of its workflow
recordDecision_DropsPending(i, requestId, approved, approver, approverNotes, override) ==
    LET decision == ApprovalDecision(requestId, approved, approver, approverNotes,
                                     override)
    IN  /\ LogHasRoom
        /\ approvedRequests' = [approvedRequests EXCEPT ![i] = MapSet(@, requestId, decision)]
        /\ log' = logDecision(log, RequestContext(i, requestId), decision)
        /\ pendingRequests' = [pendingRequests EXCEPT ![i] = EmptyMap]
        /\ lastOp' = Op("recordDecision", i, requestId, Def(decision))
        /\ UNCHANGED <<registry, currentSessionIntent, callers, fsFails, orchestrationDir>>

recordDecision(i, requestId, approved, approver, approverNotes, override) ==
    LET decision == ApprovalDecision(requestId, approved, approver, approverNotes,
                                     override)
    IN  /\ LogHasRoom
        /\ approvedRequests' = [approvedRequests EXCEPT ![i] = MapSet(@, requestId, decision)]
        /\ log' = logDecision(log, RequestContext(i, requestId), decision)
        /\ lastOp' = Op("recordDecision", i, requestId, Def(decision))
        /\ UNCHANGED <<registry, currentSessionIntent, pendingRequests, callers, fsFails, orchestrationDir>>

RecordDecision(requestId, d) ==
    recordDecision(Shared, requestId, d[1], d[2], d[3], d[4])

\* logRequest called on its own (it is public)
LogRequest(request) ==
    /\ LogHasRoom
    /\ log' = logRequest(log, request)
    /\ lastOp' = Op("logRequest", Shared, request.request_id, Undefined)
    /\ UNCHANGED <<registry, currentSessionIntent, pendingRequests, approvedRequests,
                   callers, fsFails, orchestrationDir>>

\* a clearAllApprovals that removes the log and keeps the decided Map
clearAllApprovals_KeepsDecided(i) ==
    /\ log' = IF fsFails THEN log ELSE <<>>
    /\ pendingRequests' =
         IF fsFails /\ log # <<>> THEN pendingRequests
         ELSE [pendingRequests EXCEPT ![i] = EmptyMap]
    /\ approvedRequests' = approvedRequests
    /\ lastOp' = Op("clearAllApprovals", i, Undefined, Undefined)
    /\ UNCHANGED <<registry, currentSessionIntent, callers, fsFails, orchestrationDir>>

\* clearAllApprovals: unlinkSync first; when it throws the Maps are left as they are
clearAllApprovals(i) ==
    /\ log' = IF fsFails THEN log ELSE <<>>
    /\ pendingRequests' =
         IF fsFails /\ log # <<>> THEN pendingRequests
         ELSE [pendingRequests EXCEPT ![i] = EmptyMap]
    /\ approvedRequests' =
         IF fsFails /\ log # <<>> THEN approvedRequests
         ELSE [approvedRequests EXCEPT ![i] = EmptyMap]
    /\ lastOp' = Op("clearAllApprovals", i, Undefined, Undefined)
    /\ UNCHANGED <<registry, currentSessionIntent, callers, fsFails, orchestrationDir>>

ClearAllApprovals == clearAllApprovals(Shared)


(***************************************************************************)
(* IntentHookEngine                                                        *)
(***************************************************************************)
restrictedTools == <<"write_file", "apply_diff", "execute_command", "write_to_file">>

\* Array.prototype.includes
Includes(list, x) == \E k \in DOMAIN list : list[k] = x

MustCiteIntent ==
    "You must cite a valid active Intent ID via select_active_intent before performing structural changes."

\* a gate whose list of restricted tools lacks write_to_file
gatekeeper_ShortList(tool) ==
    IF Includes(SubSeq(restrictedTools, 1, 3), tool) /\ ~IsDef(currentSessionIntent)
    THEN [allowed |-> FALSE, message |-> Def(MustCiteIntent)]
    ELSE [allowed |-> TRUE, message |-> Undefined]

gatekeeper(tool) ==
    IF Includes(restrictedTools, tool) /\ ~IsDef(currentSessionIntent)
    THEN [allowed |-> FALSE, message |-> Def(MustCiteIntent)]
    ELSE [allowed |-> TRUE, message |-> Undefined]

\* a validateScope that answers a missing intent as an intent that owns nothing
validateScope_AsMiss(filePaths) ==
    IF ~IsDef(currentSessionIntent)
    THEN arePathsInScope(filePaths, <<>>)
    ELSE arePathsInScope(filePaths, Val(currentSessionIntent).owned_scope)

\* validateScope as it answers when this.currentSessionIntent is intent
validateScopeWith(intent, filePaths) ==
    IF ~IsDef(intent)
    THEN ScopeResult(FALSE, Def(<<"No active intent - cannot validate scope">>),
                     Undefined,
                     IF filePaths = <<>> THEN Undefined ELSE Def(filePaths[1]))
    ELSE arePathsInScope(filePaths, Val(intent).owned_scope)

validateScope(filePaths) == validateScopeWith(currentSessionIntent, filePaths)

\* an isFileInScope that accepts what any intent of the registry owns
isFileInScope_AnyIntent(filePath) ==
    IF ~IsDef(currentSessionIntent) THEN FALSE
    ELSE \E x \in DOMAIN loadIntents(registry) :
            isPathInScope(filePath, loadIntents(registry)[x].owned_scope).isWithinScope

isFileInScope(filePath) ==
    IF ~IsDef(currentSessionIntent) THEN FALSE
    ELSE isPathInScope(filePath, Val(currentSessionIntent).owned_scope).isWithinScope

\* the <intent_context> block preHook returns
IntentContextBlock(intent) ==
    [intent_id |-> intent.id, intent_name |-> intent.name, status |-> intent.status,
     constraints |-> intent.constraints, owned_scope |-> intent.owned_scope,
     acceptance_criteria |-> intent.acceptance_criteria]

\* Property names every plain object inherits from Object.prototype: loadIntents
\* builds the registry as a plain object ({}), and intents?.[intentId] finds an
\* inherited property as it finds an own one.
InheritedKeys == {"constructor"}

\* a property the object does not have (it reads as undefined)
NoProperty == ""

\* what intents["constructor"] is: the function Object.  Its name is "Object";
\* it has no id, status, owned_scope, constraints or acceptance_criteria
\* (ScopeValidator treats an undefined owned_scope as an empty one).
ObjectFunction == Intent(NoProperty, "Object", NoProperty, <<>>, <<>>, <<>>)

InvalidIntentId == <<"throw", "Invalid Intent ID">>

\* intent.constraints.map(...) on a value that has no constraints
TypeErrorThrown == <<"throw", "TypeError">>

\* a select that drops the active intent when the id is not in the registry
SelectActiveIntent_ClearsOnFailure(intentId) ==
    LET intents == loadIntents(registry) IN
    /\ IF intentId \in DOMAIN intents
       THEN /\ currentSessionIntent' = Def(intents[intentId])
            /\ lastOp' = Op("preHook", "", intentId,
                            Def(IntentContextBlock(intents[intentId])))
       ELSE IF intentId \in InheritedKeys
       THEN /\ currentSessionIntent' = Def(ObjectFunction)
            /\ lastOp' = Op("preHook", "", intentId, TypeErrorThrown)
       ELSE /\ currentSessionIntent' = Undefined
            /\ lastOp' = Op("preHook", "", intentId, InvalidIntentId)
    /\ UNCHANGED <<registry, pendingRequests, approvedRequests, log, callers, fsFails, orchestrationDir>>

\* preHook("select_active_intent", { intent_id: intentId })
SelectActiveIntent(intentId) ==
    LET intents == loadIntents(registry) IN
    /\ IF intentId \in DOMAIN intents
       THEN /\ currentSessionIntent' = Def(intents[intentId])
            /\ lastOp' = Op("preHook", "", intentId,
                            Def(IntentContextBlock(intents[intentId])))
       ELSE IF intentId \in InheritedKeys
       THEN \* the lookup is truthy: the assignment runs, then the template throws
            /\ currentSessionIntent' = Def(ObjectFunction)
            /\ lastOp' = Op("preHook", "", intentId, TypeErrorThrown)
       ELSE /\ currentSessionIntent' = currentSessionIntent
            /\ lastOp' = Op("preHook", "", intentId, InvalidIntentId)
    /\ UNCHANGED <<registry, pendingRequests, approvedRequests, log, callers, fsFails, orchestrationDir>>

ClearSessionIntent ==
    /\ currentSessionIntent' = Undefined
    /\ lastOp' = Op("clearSessionIntent", "", Undefined, Undefined)
    /\ UNCHANGED <<registry, pendingRequests, approvedRequests, log, callers, fsFails, orchestrationDir>>

\* a tag that names the first intent of the registry, whichever is active
CurrentIntentId_First == Def("INT-001")

\* the intent's id, or undefined when no intent is active
CurrentIntentId ==
    IF IsDef(currentSessionIntent) /\ Val(currentSessionIntent).id # NoProperty
    THEN Def(Val(currentSessionIntent).id) ELSE Undefined

FullSummary(changeSummary, outOfScopeFiles) ==
    <<changeSummary,
      "WARNING: The following files are outside the current intent's scope:",
      outOfScopeFiles,
      "Human approval required to override scope enforcement.">>

RequestApprovalForOutOfScope(c, changeSummary, diff, filesAffected, outOfScopeFiles, rand) ==
    Suspend(c, "requestApprovalForOutOfScope", Engine,
            createRequest(FullSummary(changeSummary, outOfScopeFiles), diff,
                          filesAffected, CurrentIntentId, Undefined, 1, rand))

RecordApprovalDecision(requestId, d) ==
    recordDecision(Engine, requestId, d[1], d[2], d[3], d[4])

getIntentApprovals(intentId) == getApprovalsByIntent(intentId)

isApprovalPending(requestId) == IsDef(getPendingRequest(Engine, requestId))

(***************************************************************************)
(* The request_human_approval tool                                         *)
(***************************************************************************)
\* approvalManager.createRequest(...): createRequest is a static method of the
\* class, so the exported instance has no such property and the call throws
NotAFunction == "approvalManager.createRequest is not a function"

\* requestHumanApproval: the call at the head of the try block throws, the catch
\* block turns the error into the result, and the function returns; nothing was
\* created, submitted or logged
RequestHumanApproval(c) ==
    /\ callers[c].pc = "idle"
    /\ lastOp' = CallerOp("requestHumanApproval", Shared, Undefined,
                          Def([success |-> FALSE, request_id |-> "",
                               status |-> "rejected",
                               message |-> <<"Failed to submit approval request",
                                             NotAFunction>>]), c)
    /\ UNCHANGED <<registry, currentSessionIntent, pendingRequests, approvedRequests,
                   log, callers, fsFails, orchestrationDir>>

(***************************************************************************)
(* Environment                                                             *)
(***************************************************************************)
\* the owner of active_intents.yaml rewrites it
EditRegistry ==
    /\ registry' \in RegistryVersions \ {registry}
    /\ lastOp' = Op("editRegistry", "", Undefined, Undefined)
    /\ UNCHANGED <<currentSessionIntent, pendingRequests, approvedRequests, log,
                   callers, fsFails, orchestrationDir>>

\* fs.mkdirSync in the constructor of ApprovalManager, outside any try
MkdirThrown == <<"throw", "mkdirSync">>

\* no ApprovalManager object exists (the module that exports the singleton
\* failed to load)
NotConstructed == [i \in {} |-> EmptyMap]

\* the process ends and starts again: every task is gone, both ApprovalManager
\* objects and the engine are constructed anew over the files left on disk.  The
\* constructor makes .orchestration when it is missing, then loads the log.
Restart ==
    /\ callers' = [c \in Callers |-> IdleCaller]
    /\ currentSessionIntent' = Undefined
    /\ IF ~orchestrationDir /\ fsFails
       THEN /\ pendingRequests' = NotConstructed
            /\ approvedRequests' = NotConstructed
            /\ orchestrationDir' = orchestrationDir
            /\ lastOp' = Op("restart", "", Undefined, MkdirThrown)
       ELSE /\ pendingRequests' = [i \in Insts |-> EmptyMap]
            /\ approvedRequests' = [i \in Insts |-> loadApprovalLog(log)]
            /\ orchestrationDir' = TRUE
            /\ lastOp' = Op("restart", "", Undefined, Undefined)
    /\ UNCHANGED <<registry, log, fsFails>>

\* the ApprovalManager objects exist
Constructed == DOMAIN pendingRequests = Insts

\* file-system calls on the log start or stop throwing
ToggleFs ==
    /\ fsFails' = ~fsFails
    /\ lastOp' = Op("toggleFs", "", Undefined, Undefined)
    /\ UNCHANGED <<registry, currentSessionIntent, pendingRequests, approvedRequests,
                   log, callers, orchestrationDir>>

\* .orchestration is removed, the log in it included
RemoveDir ==
    /\ orchestrationDir
    /\ orchestrationDir' = FALSE
    /\ log' = <<>>
    /\ lastOp' = Op("removeDir", "", Undefined, Undefined)
    /\ UNCHANGED <<registry, currentSessionIntent, pendingRequests, approvedRequests,
                   callers, fsFails>>

(***************************************************************************)
(* Specifications                                                          *)
(***************************************************************************)
Init ==
    /\ registry = 1
    /\ currentSessionIntent = Undefined
    /\ pendingRequests = [i \in Insts |-> EmptyMap]
    /\ approvedRequests = [i \in Insts |-> EmptyMap]
    /\ log = <<>>
    /\ callers = [c \in Callers |-> IdleCaller]
    /\ fsFails = FALSE
    /\ orchestrationDir = TRUE
    /\ lastOp = Op("init", "", Undefined, Undefined)

\* the approval workflow as the exported singleton runs it
Next ==
    \/ \E c \in Callers, request \in DirectRequests : SubmitForApproval(c, request)
    \/ \E c \in Callers : Poll(c)
    \/ \E requestId \in RequestIds, d \in DecisionInputs : RecordDecision(requestId, d)
    \/ \E request \in DirectRequests : LogRequest(request)
    \/ ClearAllApprovals
    \/ Restart

\* the gate and the approval workflow it owns, over a registry that is edited
NextGate ==
    \/ \E intentId \in IntentIds : SelectActiveIntent(intentId)
    \/ ClearSessionIntent
    \/ EditRegistry
    \/ \E c \in Callers, rand \in 1..NumIds :
          RequestApprovalForOutOfScope(c, "Update README", "diff", <<PathReadme>>,
                                       <<PathReadme>>, rand)
    \/ \E c \in Callers : Poll(c)
    \/ \E requestId \in RequestIds, d \in DecisionInputs :
          RecordApprovalDecision(requestId, d)
    \/ Restart

\* the documented approval flow: the tool and direct callers work on the
\* singleton, the approval service records decisions through the engine or on
\* the singleton
NextTool ==
    \/ \E c \in Callers : RequestHumanApproval(c)
    \/ \E c \in Callers, request \in DirectRequests : SubmitForApproval(c, request)
    \/ \E c \in Callers : Poll(c)
    \/ \E requestId \in RequestIds, d \in DecisionInputs :
          RecordApprovalDecision(requestId, d)
    \/ \E requestId \in RequestIds, d \in DecisionInputs : RecordDecision(requestId, d)

\* the log's file system works
Spec == Init /\ [][Next]_vars

SpecTool == Init /\ [][NextTool]_vars

SpecGate == Init /\ [][NextGate]_vars

\* clock readings of createRequest calls
Clocks == {1, 2}

\* a createRequest that also enters the request in the pending Map
CreateRequest_Registers(now, rand) ==
    LET request == createRequest(<<"Refactor auth module">>, "diff content here",
                                 <<PathModule>>, Def("INT-001"), Def("turn-123"),
                                 now, rand)
    IN  /\ lastOp' = Op("createRequest", "", request.request_id, Def(request))
        /\ pendingRequests' =
              [pendingRequests EXCEPT ![Shared] = MapSet(@, request.request_id, request)]
        /\ UNCHANGED <<registry, currentSessionIntent, approvedRequests, log, callers,
                       fsFails, orchestrationDir>>

\* ApprovalManager.createRequest called by a task of the process: it builds the
\* object from its arguments, the clock and the random source and returns it
CreateRequest(now, rand) ==
    /\ lastOp' = Op("createRequest", "", RequestIdOf(now, rand),
                    Def(createRequest(<<"Refactor auth module">>, "diff content here",
                                      <<PathModule>>, Def("INT-001"), Def("turn-123"),
                                      now, rand)))
    /\ UNCHANGED <<registry, currentSessionIntent, pendingRequests, approvedRequests,
                   log, callers, fsFails, orchestrationDir>>

\* the singleton's workflow with requests created ahead of their submission
NextCreate ==
    \/ \E now \in Clocks, rand \in 1..NumIds : CreateRequest(now, rand)
    \/ Next

SpecCreate == Init /\ [][NextCreate]_vars

\* file-system calls on the log may fail at any time and .orchestration may be
\* removed; a process whose ApprovalManager could not be constructed can only be
\* started again
NextIO ==
    \/ Constructed /\ Next
    \/ ~Constructed /\ Restart
    \/ ToggleFs
    \/ RemoveDir

SpecIO == Init /\ [][NextIO]_vars

\* the poll timer of every suspended caller keeps firing (setInterval, 100 ms)
SpecLive == Spec /\ \A c \in Callers : WF_vars(Poll(c))

(***************************************************************************)
(* The pure functions, applied to inputs drawn at the start                *)
(***************************************************************************)
\* the arguments of one application
FnInputs ==
    {<<"scope", paths, patterns>> : paths \in FnPathLists, patterns \in FnPatternLists}
    \cup
    {<<"create", now1, rand1, now2, rand2>> :
        now1 \in Clocks, rand1 \in 1..NumIds, now2 \in Clocks, rand2 \in 1..NumIds}
    \cup
    {<<"diff", diff>> : diff \in Diffs}

InitFn ==
    /\ registry = 1
    /\ currentSessionIntent = Undefined
    /\ pendingRequests = [i \in Insts |-> EmptyMap]
    /\ approvedRequests = [i \in Insts |-> EmptyMap]
    /\ log = <<>>
    /\ callers = [c \in Callers |-> IdleCaller]
    /\ fsFails = FALSE
    /\ orchestrationDir = TRUE
    /\ \E args \in FnInputs : lastOp = Op("args", "", args, Undefined)

\* the function op applied to the drawn arguments returned result
Applied(op, result) ==
    /\ lastOp' = Op(op, "", lastOp.id, Def(result))
    /\ UNCHANGED <<registry, currentSessionIntent, pendingRequests, approvedRequests,
                   log, callers, fsFails, orchestrationDir>>

CallArePathsInScope ==
    /\ lastOp.op = "args" /\ lastOp.id[1] = "scope"
    /\ Applied("arePathsInScope", arePathsInScope(lastOp.id[2], lastOp.id[3]))

CallIsPathInScope ==
    /\ lastOp.op = "args" /\ lastOp.id[1] = "scope"
    /\ Len(lastOp.id[2]) = 1
    /\ Applied("isPathInScope", isPathInScope(lastOp.id[2][1], lastOp.id[3]))

\* matchesPattern as isPathInScope calls it: on the normalized path
CallMatchesPattern ==
    /\ lastOp.op = "args" /\ lastOp.id[1] = "scope"
    /\ Len(lastOp.id[2]) = 1 /\ Len(lastOp.id[3]) = 1
    /\ Applied("matchesPattern",
               matchesPattern(NormalizeSeparators(lastOp.id[2][1]), lastOp.id[3][1]))

\* two createRequest calls of one process
CallCreateRequest ==
    /\ lastOp.op = "args" /\ lastOp.id[1] = "create"
    /\ Applied("createRequest",
               <<createRequest(<<"Change 1">>, "diff1", <<PathOk>>, Undefined, Undefined,
                               lastOp.id[2], lastOp.id[3]),
                 createRequest(<<"Change 2">>, "diff2", <<PathBad>>, Undefined, Undefined,
                               lastOp.id[4], lastOp.id[5])>>)

CallExtractFilesFromDiff ==
    /\ lastOp.op = "args" /\ lastOp.id[1] = "diff"
    /\ Applied("extractFilesFromDiff", extractFilesFromDiff(lastOp.id[2]))

NextFn ==
    \/ CallArePathsInScope
    \/ CallIsPathInScope
    \/ CallMatchesPattern
    \/ CallCreateRequest
    \/ CallExtractFilesFromDiff

SpecFn == InitFn /\ [][NextFn]_vars

(***************************************************************************)
(* Properties                                                              *)
(***************************************************************************)
MutatingTools == {"write_file", "apply_diff", "execute_command", "write_to_file"}
ProposedPaths == {PathAuth, PathReadme}

\* an approved decision is on record for a request whose files include the path
ApprovedFor(path) ==
    \E id \in DOMAIN approvedRequests[Engine], k \in DOMAIN log :
        /\ isApproved(Engine, id)
        /\ log[k].request_id = id
        /\ IsDef(log[k].files_affected)
        /\ Includes(Val(log[k].files_affected), path)

\* C1: a mutating tool on a path outside the active intent's owned scope is
\* allowed by the gate only if an approved decision is on record for an approval
\* request covering that path.
C1_NoWriteOutsideScopeWithoutApproval ==
    \A tool \in MutatingTools, path \in ProposedPaths :
        (gatekeeper(tool).allowed /\ ~isFileInScope(path)) => ApprovedFor(path)

Resumes(c) == lastOp'.op = "resolve" /\ lastOp'.caller = c

\* C3: a caller suspended in submitForApproval leaves that state only by being
\* resumed (or by the process ending); it is resumed only when the decided index
\* holds a decision under its request's id, and the value it resumes with is that
\* decision, whose request_id is the request's id.  No other operation (a decision
\* for another id, clearAll, logRequest, another submit) changes a suspended caller.
C3_ResumedOnlyByOwnDecision ==
    [][\A c \in Callers :
          (callers[c].pc = "suspended" /\ callers'[c] # callers[c]) =>
             \/ lastOp'.op = "restart"
             \/ /\ Resumes(c)
                /\ Has(approvedRequests[callers[c].inst], callers[c].id)
                /\ lastOp'.id = callers[c].id
                /\ lastOp'.ret = Def(approvedRequests[callers[c].inst][callers[c].id])
                /\ Val(lastOp'.ret).request_id = callers[c].id]_vars

\* a caller was resumed while a decision for another id sat in the decided index
\* and another caller stayed suspended on that request's id
C3_Witness ==
    /\ lastOp.op = "resolve"
    /\ \E other \in DOMAIN approvedRequests[Shared] : other # lastOp.id
    /\ \E c \in Callers : callers[c].pc = "suspended" /\ callers[c].id = lastOp.id

\* recordDecision was just called for the id caller c is suspended on, on the
\* workflow it is suspended in
DecidedWhileSuspended(c) ==
    /\ callers[c].pc = "suspended"
    /\ lastOp.op = "recordDecision"
    /\ lastOp.inst = callers[c].inst
    /\ lastOp.id = callers[c].id

\* C4: if recordDecision(id) is called while a caller is suspended for id on
\* the same workflow, that caller eventually resumes with a decision for id and
\* id leaves the pending index (a process that ends has no caller to resume).
C4_DecisionEventuallyResumes ==
    \A c \in Callers :
        DecidedWhileSuspended(c) ~>
            \/ /\ lastOp.op = "resolve"
               /\ lastOp.caller = c
               /\ Val(lastOp.ret).request_id = lastOp.id
               /\ ~Has(pendingRequests[lastOp.inst], lastOp.id)
            \/ lastOp.op = "restart"

\* C5: in the state right after recordDecision(id) the request is not in the
\* pending index, and no state has an id in both the pending and the decided index.
C5_DecidedIsNotPending ==
    /\ lastOp.op = "recordDecision" =>
          ~IsDef(getPendingRequest(lastOp.inst, lastOp.id))
    /\ \A i \in Insts, id \in RequestIds :
          ~(Has(pendingRequests[i], id) /\ Has(approvedRequests[i], id))

\* the step called recordDecision on workflow i for id
Records(i, id) ==
    lastOp'.op = "recordDecision" /\ lastOp'.inst = i /\ lastOp'.id = id

\* the decision stored for id in workflow i is the same before and after the step
DecisionKept(i, id) ==
    Has(approvedRequests'[i], id) /\ approvedRequests'[i][id] = approvedRequests[i][id]

\* the log holds at most one decision per request id
OneDecisionPerId(file) ==
    \A j, k \in DOMAIN file :
        (file[j].request_id = file[k].request_id
            /\ IsDef(file[j].decision) /\ IsDef(file[k].decision))
        => file[j].decision = file[k].decision

\* C6 as written: once getDecision(id) is defined, no later operation other
\* than clearAll changes its value, and the log never holds two different decisions
\* for the same id.
C6_DecidedExactlyOnce ==
    [][/\ \A i \in Insts, id \in RequestIds :
             (Has(approvedRequests[i], id) /\ lastOp'.op # "clearAllApprovals")
                => DecisionKept(i, id)
       /\ OneDecisionPerId(log')]_vars

\* C6 as amended: once getDecision(id) is defined on a workflow, its value is
\* changed only by clearAll or by a later recordDecision for the same id on that
\* workflow, which replaces it (a restart builds the workflow anew from the log).
C6_DecisionChangedOnlyByRecordOrClear ==
    [][\A i \in Insts, id \in RequestIds :
          (Has(approvedRequests[i], id) /\ ~DecisionKept(i, id)) =>
             \/ Records(i, id) /\ getDecision(i, id)' = lastOp'.ret
             \/ lastOp'.op = "clearAllApprovals" /\ lastOp'.inst = i
             \/ lastOp'.op = "restart"]_vars

\* a second, different decision was recorded for an id: the log holds both
\* decisions and the decided index holds the second
C6_Witness ==
    /\ lastOp.op = "recordDecision"
    /\ ~OneDecisionPerId(log)
    /\ getDecision(Shared, lastOp.id) = lastOp.ret

\* C7: right after recordDecision(id, approved, ...) isApproved(id) is the
\* approved flag just recorded, and isApproved(id) changes in no step other than a
\* recordDecision for that id on that workflow (or clearAll, or a restart): so
\* it is the flag of the most recent recordDecision for id, and a decision for one
\* id never changes isApproved of another.
C7_LastDecisionWins ==
    [][\A i \in Insts, id \in RequestIds :
          /\ Records(i, id) => isApproved(i, id)' = Val(lastOp'.ret).approved
          /\ (isApproved(i, id)' # isApproved(i, id)) =>
                \/ Records(i, id)
                \/ lastOp'.op = "clearAllApprovals" /\ lastOp'.inst = i
                \/ lastOp'.op = "restart"]_vars

\* a rejection was recorded for an id that the log shows approved earlier
C7_Witness ==
    /\ lastOp.op = "recordDecision"
    /\ ~Val(lastOp.ret).approved
    /\ ~isApproved(Shared, lastOp.id)
    /\ \E k \in DOMAIN log :
          /\ log[k].request_id = lastOp.id
          /\ IsDef(log[k].decision)
          /\ Val(log[k].decision).approved

\* C8: isApproved(id) is true iff the decided index holds a decision for id with
\* approved true; it is false for an id that is unknown, created or pending; after
\* a rejecting recordDecision it is false while getDecision returns the rejection;
\* requiresOverride(id) is true only when a stored decision has the override flag.
C8_ApprovedIffDecidedApproved ==
    /\ \A i \in Insts, id \in RequestIds :
          /\ isApproved(i, id) <=>
                (Has(approvedRequests[i], id) /\ approvedRequests[i][id].approved)
          /\ ~Has(approvedRequests[i], id) => ~isApproved(i, id)
          /\ Has(pendingRequests[i], id) => ~isApproved(i, id)
          /\ requiresOverride(i, id) =>
                (Has(approvedRequests[i], id)
                   /\ approvedRequests[i][id].requires_override = Def(TRUE))
    /\ (lastOp.op = "recordDecision" /\ ~Val(lastOp.ret).approved) =>
          (~isApproved(lastOp.inst, lastOp.id)
             /\ getDecision(lastOp.inst, lastOp.id) = lastOp.ret)

IsPrefix(s, t) == Len(s) <= Len(t) /\ SubSeq(t, 1, Len(s)) = s

\* C9: under every operation other than clearAll the lines of the log before
\* the operation are a prefix of the lines after it.
C9_LogAppendOnly ==
    [][lastOp'.op # "clearAllApprovals" => IsPrefix(log, log')]_vars

\* a decision was recorded for a request whose own line is already in the log:
\* both lines are there, the request's line first
C9_Witness ==
    /\ lastOp.op = "recordDecision"
    /\ Len(log) = 2
    /\ log[1].request_id = lastOp.id
    /\ ~IsDef(log[1].decision)
    /\ log[2].decision = lastOp.ret

\* C10: recordDecision(id, ...) for an id that is not in the pending index
\* returns the decision, stores it in the decided index, appends to the log one
\* record carrying request_id and the decision, and resumes no suspended caller.
C10_DecisionForUnknownRequest ==
    [][\A i \in Insts, id \in RequestIds :
          (Records(i, id) /\ ~Has(pendingRequests[i], id)) =>
             /\ IsDef(lastOp'.ret)
             /\ Val(lastOp'.ret).request_id = id
             /\ getDecision(i, id)' = lastOp'.ret
             /\ Len(log') = Len(log) + 1
             /\ log'[Len(log')].request_id = id
             /\ log'[Len(log')].decision = lastOp'.ret
             /\ callers' = callers
             /\ pendingRequests' = pendingRequests]_vars

\* a decision was recorded for an id that is not pending while a caller is
\* suspended on another id, and that caller is still suspended
C10_Witness ==
    /\ lastOp.op = "recordDecision"
    /\ ~Has(pendingRequests[lastOp.inst], lastOp.id)
    /\ \E c \in Callers :
          /\ callers[c].pc = "suspended"
          /\ callers[c].inst = lastOp.inst
          /\ callers[c].id # lastOp.id
          /\ ~Has(approvedRequests[lastOp.inst], callers[c].id)

\* the decision of the last decision-bearing line of the file for id
LastDecisionIn(file, id) ==
    LET ks == {k \in DOMAIN file : file[k].request_id = id /\ IsDef(file[k].decision)}
    IN  IF ks = {} THEN Undefined
        ELSE file[CHOOSE k \in ks : \A j \in ks : j <= k].decision

\* C11: a workflow constructed over an existing log has an empty pending index
\* and a decided index that maps each id to the decision of the last
\* decision-bearing record of the log for that id; getDecision, isApproved and
\* requiresOverride on it agree with the workflow that recorded the decisions.
C11_DecisionsSurviveRestart ==
    [][lastOp'.op = "restart" =>
          \A i \in Insts :
             /\ pendingRequests'[i] = EmptyMap
             /\ \A id \in RequestIds :
                   /\ getDecision(i, id)' = LastDecisionIn(log', id)
                   /\ getDecision(Shared, id)' = getDecision(Shared, id)
                   /\ isApproved(Shared, id)' = isApproved(Shared, id)
                   /\ requiresOverride(Shared, id)' = requiresOverride(Shared, id)]_vars

\* the process started over a log that holds a request record and two different
\* decisions for one id: nothing is pending and the later decision is in force
C11_Witness ==
    /\ lastOp.op = "restart"
    /\ ~OneDecisionPerId(log)
    /\ \E k \in DOMAIN log : ~IsDef(log[k].decision)
    /\ \A i \in Insts : pendingRequests[i] = EmptyMap
    /\ \E id \in RequestIds :
          IsDef(getDecision(Shared, id)) /\ getDecision(Shared, id) = log[Len(log)].decision

\* C12: with several callers suspended on distinct ids, recordDecision for one
\* id leaves the pending entry and the stored decision of every other id and the
\* state of every caller as they were, and resuming one caller leaves the callers,
\* pending entries and decisions of the other ids as they were; decisions may
\* arrive in any order relative to submission order.
C12_PendingRequestsIndependent ==
    [][\A i \in Insts, id \in RequestIds :
          /\ Records(i, id) =>
                /\ callers' = callers
                /\ \A other \in RequestIds \ {id} :
                      /\ getPendingRequest(i, other)' = getPendingRequest(i, other)
                      /\ getDecision(i, other)' = getDecision(i, other)
          /\ (lastOp'.op = "resolve" /\ lastOp'.inst = i /\ lastOp'.id = id) =>
                /\ \A c \in Callers \ {lastOp'.caller} : callers'[c] = callers[c]
                /\ \A other \in RequestIds \ {id} :
                      /\ getPendingRequest(i, other)' = getPendingRequest(i, other)
                      /\ getDecision(i, other)' = getDecision(i, other)]_vars

\* two requests were submitted one after the other and the decision for the later
\* one was recorded first: the caller of the earlier one is still suspended, its
\* request still pending and undecided
C12_Witness ==
    /\ lastOp.op = "recordDecision"
    /\ Len(log) = 3
    /\ log[2].request_id = lastOp.id
    /\ log[3].decision = lastOp.ret
    /\ log[1].request_id # lastOp.id
    /\ \E c1, c2 \in Callers :
          /\ callers[c1].pc = "suspended" /\ callers[c1].id = log[1].request_id
          /\ callers[c2].pc = "suspended" /\ callers[c2].id = lastOp.id
    /\ IsDef(getPendingRequest(Shared, log[1].request_id))
    /\ ~IsDef(getDecision(Shared, log[1].request_id))

GatePaths == {PathAuth, PathReadme, PathConfig}
GatePathLists == {<<>>, <<PathAuth>>, <<PathConfig>>, <<PathAuth, PathReadme>>}

\* every owned_scope the registry may hold, and the empty one
RegistryScopes ==
    {<<>>} \cup
    UNION {{loadIntents(v)[x].owned_scope : x \in DOMAIN loadIntents(v)} :
             v \in RegistryVersions}

\* the reasons validateScope gives when an intent is active
OrdinaryMissReasons ==
    {arePathsInScope(paths, scope).reason :
        paths \in GatePathLists, scope \in RegistryScopes}

NoActiveIntentReason == Def(<<"No active intent - cannot validate scope">>)

C15_SelectIntent ==
    lastOp.op = "preHook" =>
        LET intents == loadIntents(registry) IN
        IF lastOp.id \in DOMAIN intents
        THEN /\ currentSessionIntent = Def(intents[lastOp.id])
             /\ Len(lastOp.ret) = 1
             /\ Val(lastOp.ret).intent_id = lastOp.id
             /\ Val(lastOp.ret).intent_name = intents[lastOp.id].name
             /\ Val(lastOp.ret).status = intents[lastOp.id].status
             /\ Val(lastOp.ret).constraints = intents[lastOp.id].constraints
             /\ Val(lastOp.ret).owned_scope = intents[lastOp.id].owned_scope
             /\ Val(lastOp.ret).acceptance_criteria = intents[lastOp.id].acceptance_criteria
        ELSE lastOp.ret = InvalidIntentId

\* some pattern of the active intent's owned scope matches the path
OwnedByActive(path) ==
    LET scope == Val(currentSessionIntent).owned_scope IN
    \E k \in DOMAIN scope : matchesPattern(NormalizeSeparators(path), scope[k])

\* C16: after a successful selection the active intent is the one just
\* selected, and while an intent is active validateScope and isFileInScope judge
\* paths against the owned scope of that intent only.
C16_ActiveIntentIsLastSelected ==
    /\ (lastOp.op = "preHook" /\ Len(lastOp.ret) = 1) =>
          /\ currentSessionIntent = Def(loadIntents(registry)[lastOp.id])
          /\ CurrentIntentId = Def(lastOp.id)
    /\ IsDef(currentSessionIntent) =>
          /\ \A p \in GatePaths : isFileInScope(p) <=> OwnedByActive(p)
          /\ \A paths \in GatePathLists :
                validateScope(paths).isWithinScope <=>
                    \A k \in DOMAIN paths : OwnedByActive(paths[k])

\* INT-001 was selected and a request raised under it, then INT-002 was
\* selected: a path INT-001 owns is out of scope, a path INT-002 owns is in scope
C16_Witness ==
    /\ lastOp.op = "preHook"
    /\ CurrentIntentId = Def("INT-002")
    /\ \E id \in DOMAIN pendingRequests[Engine] :
          pendingRequests[Engine][id].intent_id = Def("INT-001")
    /\ ~isFileInScope(PathAuth)
    /\ ~validateScope(<<PathAuth>>).isWithinScope
    /\ isFileInScope(PathConfig)

\* C17: arePathsInScope(paths, patterns) answers within scope exactly when
\* every path of the list satisfies isPathInScope against the same patterns;
\* otherwise its reason carries the number and the list of the offending paths in
\* input order, and attemptedPath is the first offending path.
C17_AllOrNothing ==
    lastOp.op = "arePathsInScope" =>
        LET paths == lastOp.id[2]
            patterns == lastOp.id[3]
            r == Val(lastOp.ret)
            Offends(p) == ~isPathInScope(p, patterns).isWithinScope
            offending == SelectSeq(paths, Offends)
        IN  /\ r.isWithinScope <=> \A k \in DOMAIN paths : ~Offends(paths[k])
            /\ ~r.isWithinScope =>
                  /\ r.reason =
                        Def(<<"file(s) outside scope", Len(offending), offending>>)
                  /\ r.attemptedPath = Def(offending[1])

\* arePathsInScope(["src/auth/ok.ts", "src/db/bad.ts"], ["src/auth/"]) reported
\* one file outside scope
C17_Witness ==
    /\ lastOp.op = "arePathsInScope"
    /\ lastOp.id[2] = <<PathOk, PathBad>>
    /\ lastOp.id[3] = <<ScopeAuthDir>>
    /\ ~Val(lastOp.ret).isWithinScope
    /\ Val(lastOp.ret).reason = Def(<<"file(s) outside scope", 1, <<PathBad>>>>)
    /\ Val(lastOp.ret).attemptedPath = Def(PathBad)

\* C18: isPathInScope(path, patterns) answers within scope exactly when at least
\* one pattern of the list matches the path with its backslashes turned into
\* slashes; with an empty list it answers not within scope with the reason "No
\* scope defined for this intent"; when no pattern matches, the reason and
\* attemptedPath name the path as given and allowedPaths is the whole list.
C18_SomePatternMatches ==
    lastOp.op = "isPathInScope" =>
        LET path == lastOp.id[2][1]
            patterns == lastOp.id[3]
            r == Val(lastOp.ret)
            matched == \E k \in DOMAIN patterns :
                           matchesPattern(NormalizeSeparators(path), patterns[k])
        IN  /\ r.isWithinScope <=> matched
            /\ patterns = <<>> =>
                  /\ ~r.isWithinScope
                  /\ r.reason = Def(<<"No scope defined for this intent">>)
            /\ (patterns # <<>> /\ ~matched) =>
                  /\ r.reason = Def(<<"File is outside the intent's owned_scope", path>>)
                  /\ r.attemptedPath = Def(path)
                  /\ r.allowedPaths = Def(patterns)

\* isPathInScope("src\\auth\\ok.ts", ["src/auth/", "src/db/"]) answered within
\* scope: the second pattern does not match, the first matches the normalized path
C18_Witness ==
    /\ lastOp.op = "isPathInScope"
    /\ lastOp.id[2] = <<PathBackslash>>
    /\ lastOp.id[3] = <<ScopeAuthDir, ScopeDbDir>>
    /\ Val(lastOp.ret).isWithinScope
    /\ ~matchesPattern(PathBackslash, ScopeAuthDir)

\* C19: a pattern ending in "/" matches a (separator-normalized) path exactly
\* when the path starts with the pattern string, at any nesting depth; wildcard
\* characters in such a pattern stand for themselves, and src/auth/ does not
\* match src/auth-v2/x.ts.
C19_DirectoryPatternIsPrefix ==
    (lastOp.op = "matchesPattern" /\ EndsWithSlash(lastOp.id[3][1])) =>
        LET path == NormalizeSeparators(lastOp.id[2][1])
            pattern == lastOp.id[3][1]
        IN  /\ Val(lastOp.ret) <=> StartsWith(path, pattern)
            /\ (pattern = ScopeAuthDir /\ path = PathSibling) => ~Val(lastOp.ret)
            /\ (pattern = ScopeAuthDir /\ path = PathNestedHooks) => Val(lastOp.ret)
            /\ (pattern = ScopeStarDir /\ path = PathStarDir) => Val(lastOp.ret)

\* the pattern "src/*/" was applied to "src/auth/ok.ts", which a glob reading of
\* the pattern would have matched, and did not match
C19_Witness ==
    /\ lastOp.op = "matchesPattern"
    /\ lastOp.id[3] = <<ScopeStarDir>>
    /\ lastOp.id[2] = <<PathOk>>
    /\ Val(lastOp.ret) = FALSE
    /\ RegexTest(globToRegex(ScopeStarDir \o <<"*", "*">>), PathOk)

\* What a glob is stated to match, read off the glob itself: s from position j
\* against glob from position g, to the end of both.
RECURSIVE GlobMatch(_, _, _, _)
GlobMatch(glob, g, s, j) ==
    IF g > Len(glob) THEN j > Len(s)
    ELSE IF glob[g] = "*" /\ g < Len(glob) /\ glob[g + 1] = "*"
    THEN \/ GlobMatch(glob, g + 2, s, j)
         \/ j <= Len(s) /\ GlobMatch(glob, g, s, j + 1)
    ELSE IF glob[g] = "*"
    THEN \/ GlobMatch(glob, g + 1, s, j)
         \/ j <= Len(s) /\ s[j] # SLASH /\ GlobMatch(glob, g, s, j + 1)
    ELSE IF glob[g] = "?"
    THEN j <= Len(s) /\ s[j] # SLASH /\ GlobMatch(glob, g + 1, s, j + 1)
    ELSE j <= Len(s) /\ s[j] = glob[g] /\ GlobMatch(glob, g + 1, s, j + 1)

HasWildcard(glob) == \E k \in DOMAIN glob : glob[k] \in {"*", "?"}

\* C20: a pattern not ending in "/" matches a path exactly when the whole path
\* is an instance of the pattern, "**" standing for any character sequence
\* (separators included), "*" for any sequence without a separator, "?" for one
\* character that is not a separator and every other character for itself; so
\* src/**/hooks.ts matches src/auth/strategies/hooks.ts and not src/hooks.ts,
\* src/*/hook.ts matches src/auth/hook.ts and not src/auth/sub/hook.ts, and a
\* pattern without wildcards matches the identical path only.
C20_GlobMatchesWholePath ==
    (lastOp.op = "matchesPattern" /\ ~EndsWithSlash(lastOp.id[3][1])) =>
        LET path == NormalizeSeparators(lastOp.id[2][1])
            pattern == lastOp.id[3][1]
            ret == Val(lastOp.ret)
        IN  /\ ret <=> GlobMatch(pattern, 1, path, 1)
            /\ ~HasWildcard(pattern) => (ret <=> path = pattern)
            /\ (pattern = ScopeHooksGlob /\ path = PathNestedHooks) => ret
            /\ (pattern = ScopeHooksGlob /\ path = PathTopHooks) => ~ret
            /\ (pattern = ScopeHookGlob /\ path = PathHook) => ret
            /\ (pattern = ScopeHookGlob /\ path = PathSubHook) => ~ret

\* the segments of a path between its separators
Segments(path) == Split(NormalizeSeparators(path), SLASH)

DotDot == <<".", ".">>

\* the segments left once every ".." has cancelled the segment before it
RECURSIVE Resolved(_, _)
Resolved(segments, kept) ==
    IF segments = <<>> THEN kept
    ELSE IF segments[1] = DotDot
    THEN Resolved(Tail(segments),
                  IF kept = <<>> THEN <<>> ELSE SubSeq(kept, 1, Len(kept) - 1))
    ELSE Resolved(Tail(segments), Append(kept, segments[1]))

RECURSIVE Joined(_)
Joined(segments) ==
    IF segments = <<>> THEN <<>>
    ELSE IF Len(segments) = 1 THEN segments[1]
    ELSE segments[1] \o <<SLASH>> \o Joined(Tail(segments))

\* the location a path names
Location(path) == Joined(Resolved(Segments(path), <<>>))

HasDotDot(path) == \E k \in DOMAIN Segments(path) : Segments(path)[k] = DotDot

\* C21: a path with ".." segments whose location is outside every pattern of the
\* list is not reported as within scope by isPathInScope (src/auth/../../etc/passwd
\* against src/auth/ is outside).
C21_TraversalCannotWidenScope ==
    lastOp.op = "isPathInScope" =>
        LET path == lastOp.id[2][1]
            patterns == lastOp.id[3]
        IN  (HasDotDot(path) /\ ~isPathInScope(Location(path), patterns).isWithinScope)
                => ~Val(lastOp.ret).isWithinScope

\* the path with each backslash replaced by a forward slash
WithForwardSlashes(path) ==
    [k \in 1..Len(path) |-> IF path[k] = BACKSLASH THEN SLASH ELSE path[k]]

\* C22: for every path and pattern list, isPathInScope answers the same
\* isWithinScope for the path and for the path with each backslash replaced by a
\* forward slash.
C22_SeparatorsEquivalent ==
    lastOp.op = "isPathInScope" =>
        Val(lastOp.ret).isWithinScope =
            isPathInScope(WithForwardSlashes(lastOp.id[2][1]), lastOp.id[3]).isWithinScope

\* isPathInScope("src\\auth\\ok.ts", ["src/auth/ok.ts"]) answered within scope
C22_Witness ==
    /\ lastOp.op = "isPathInScope"
    /\ lastOp.id[2] = <<PathBackslash>>
    /\ lastOp.id[3] = <<ScopeOkFile>>
    /\ WithForwardSlashes(PathBackslash) # PathBackslash
    /\ Val(lastOp.ret).isWithinScope

PlusHeader == <<"+", "+", "+", " ", "b", "/">>
MinusHeader == <<"-", "-", "-", " ", "a", "/">>

\* a line without the carriage return that ends it in a CRLF text
WithoutCR(line) ==
    IF line # <<>> /\ line[Len(line)] = "\r"
    THEN SubSeq(line, 1, Len(line) - 1) ELSE line

\* the path a line names when it is a "+++ b/<path>" or "--- a/<path>" file
\* header or a "diff --git a/<path> b/<path>" header
NamedPath(line) ==
    LET l == WithoutCR(line)
        rest == SubSeq(l, Len(GitPrefix) + 1, Len(l))
        half == (Len(rest) - 3) \div 2
    IN  IF (StartsWith(l, PlusHeader) \/ StartsWith(l, MinusHeader)) /\ Len(l) > 6
        THEN Def(SubSeq(l, 7, Len(l)))
        ELSE IF /\ StartsWith(l, GitPrefix)
                /\ half >= 1
                /\ rest = SubSeq(rest, 1, half) \o GitSeparator \o SubSeq(rest, 1, half)
        THEN Def(SubSeq(rest, 1, half))
        ELSE Undefined

\* the named paths of the lines, each once, in order of first occurrence
RECURSIVE NamedPaths(_, _)
NamedPaths(lines, seen) ==
    IF lines = <<>> THEN seen
    ELSE NamedPaths(Tail(lines),
                    IF IsDef(NamedPath(lines[1]))
                       /\ \A k \in DOMAIN seen : seen[k] # Val(NamedPath(lines[1]))
                    THEN Append(seen, Val(NamedPath(lines[1]))) ELSE seen)

\* C23: extractFilesFromDiff(diff) returns, without duplicates and in order of
\* first occurrence, exactly the paths named by the lines of the diff that are
\* "+++ b/<path>", "--- a/<path>" or "diff --git a/<path> b/<path>" headers; any
\* other line adds nothing, and a diff without such a line gives the empty list.
C23_ExtractsHeaderPaths ==
    lastOp.op = "extractFilesFromDiff" =>
        Val(lastOp.ret) = NamedPaths(Split(lastOp.id[2], "\n"), <<>>)

\* the log took no line from the operation although the call went through
AppendFailed == fsFails \/ ~orchestrationDir

\* C24: a failing log write fails no operation.  After submitForApproval the
\* request is in the pending index and the caller is suspended, after
\* recordDecision the decision is stored, returned and found by the poll of every
\* caller suspended on its id, whether or not the append succeeded; and no
\* operation, construction included, ends in an exception from file I/O.
C24_LogFailureNeverFailsWorkflow ==
    /\ lastOp.ret # MkdirThrown
    /\ lastOp.op = "submitForApproval" =>
          /\ Has(pendingRequests[lastOp.inst], lastOp.id)
          /\ callers[lastOp.caller].pc = "suspended"
          /\ callers[lastOp.caller].id = lastOp.id
    /\ lastOp.op = "recordDecision" =>
          /\ IsDef(lastOp.ret)
          /\ getDecision(lastOp.inst, lastOp.id) = lastOp.ret
          /\ \A c \in Callers :
                (callers[c].pc = "suspended" /\ callers[c].inst = lastOp.inst
                    /\ callers[c].id = lastOp.id)
                => Has(approvedRequests[callers[c].inst], callers[c].id)

\* C25: in the state clearAllApprovals returns in, whatever the file system did,
\* the log is gone and getAllApprovals is empty, and the pending and the decided
\* index of the workflow are empty: isApproved is false and getDecision undefined
\* for every id.
C25_ClearAllEmptiesEverything ==
    lastOp.op = "clearAllApprovals" =>
        /\ log = <<>>
        /\ getAllApprovals = <<>>
        /\ pendingRequests[lastOp.inst] = EmptyMap
        /\ approvedRequests[lastOp.inst] = EmptyMap
        /\ \A id \in RequestIds :
              /\ ~isApproved(lastOp.inst, id)
              /\ getDecision(lastOp.inst, id) = Undefined

\* the decision approves and demands the override
ApprovesWithOverride(decision) ==
    decision.approved = TRUE /\ decision.requires_override = Def(TRUE)

\* C26: for a request raised by requestApprovalForOutOfScope under a selected
\* intent, once recordApprovalDecision has recorded approved = true and
\* requiresOverride = true for it, requiresOverride(requestId) is true and the
\* decision is among the records getIntentApprovals returns for that intent's id;
\* and the awaiting call resolves to {approved: true, requiresOverride: true}.
C26_ApprovedOverrideEndToEnd ==
    /\ (/\ lastOp.op = "recordDecision"
        /\ lastOp.inst = Engine
        /\ ApprovesWithOverride(Val(lastOp.ret))
        /\ Has(pendingRequests[Engine], lastOp.id)
        /\ IsDef(pendingRequests[Engine][lastOp.id].intent_id))
       => /\ requiresOverride(Engine, lastOp.id)
          /\ LET records ==
                    getIntentApprovals(Val(pendingRequests[Engine][lastOp.id].intent_id))
             IN  \E k \in DOMAIN records :
                    /\ records[k].request_id = lastOp.id
                    /\ records[k].decision = lastOp.ret
    /\ (/\ lastOp.op = "resolve"
        /\ lastOp.inst = Engine
        /\ ApprovesWithOverride(approvedRequests[Engine][lastOp.id]))
       => /\ lastOp.ret = Def([approved |-> TRUE, requiresOverride |-> TRUE])
          /\ requiresOverride(Engine, lastOp.id)

\* INT-001 owns src/**/*.js and is active, README.md is out of its scope, and the
\* call that asked for approval has resolved to {approved: true,
\* requiresOverride: true}, the decision being on record under INT-001
C26_Witness ==
    /\ lastOp.op = "resolve"
    /\ lastOp.ret = Def([approved |-> TRUE, requiresOverride |-> TRUE])
    /\ IsDef(currentSessionIntent)
    /\ Val(currentSessionIntent).owned_scope = <<ScopeJsGlob>>
    /\ ~validateScope(<<PathReadme>>).isWithinScope
    /\ requiresOverride(Engine, lastOp.id)
    /\ \E k \in DOMAIN getIntentApprovals("INT-001") :
          /\ getIntentApprovals("INT-001")[k].request_id = lastOp.id
          /\ IsDef(getIntentApprovals("INT-001")[k].decision)
          /\ ApprovesWithOverride(Val(getIntentApprovals("INT-001")[k].decision))

\* the paths NextGate passes to requestApprovalForOutOfScope as out of scope
OutOfScopePassed == <<PathReadme>>

\* C27: a request created by requestApprovalForOutOfScope carries as intent_id
\* the id of the intent active at the call and its summary lists every path
\* passed as out of scope; while the request is pending no step (selecting
\* another intent, clearing the intent, editing the registry, a decision)
\* changes its intent_id.
C27_RequestTaggedWithActiveIntent ==
    [][/\ (/\ lastOp'.op = "requestApprovalForOutOfScope"
           /\ IsDef(currentSessionIntent)
           /\ Val(currentSessionIntent).id # NoProperty)
          => LET request == pendingRequests'[Engine][lastOp'.id] IN
             /\ request.intent_id = Def(Val(currentSessionIntent).id)
             /\ \A k \in DOMAIN OutOfScopePassed :
                   Includes(Val(request.change_summary)[3], OutOfScopePassed[k])
       /\ \A id \in DOMAIN pendingRequests[Engine] \cap DOMAIN pendingRequests'[Engine] :
             ~(lastOp'.op = "requestApprovalForOutOfScope" /\ lastOp'.id = id)
             => pendingRequests'[Engine][id].intent_id =
                   pendingRequests[Engine][id].intent_id]_vars

\* a request raised under INT-002 is still pending, tagged INT-002, after INT-001
\* was selected in its place
C27_Witness ==
    /\ lastOp.op = "preHook"
    /\ lastOp.id = "INT-001"
    /\ CurrentIntentId = Def("INT-001")
    /\ \E c \in Callers :
          /\ callers[c].pc = "suspended"
          /\ Has(pendingRequests[Engine], callers[c].id)
          /\ pendingRequests[Engine][callers[c].id].intent_id = Def("INT-002")

\* C28: requestHumanApproval does not return before a decision for the request
\* it created has been recorded: in the state it returns in, its result names a
\* request of the singleton's workflow for which a decision is stored.
C28_ToolBlocksUntilDecision ==
    lastOp.op = "requestHumanApproval" =>
        /\ Val(lastOp.ret).success
        /\ Has(approvedRequests[Shared], Val(lastOp.ret).request_id)

\* C29: once recordApprovalDecision has recorded a decision for an id, every
\* caller suspended in submitForApproval on that id is unblocked, on whichever
\* ApprovalManager it submitted: the poll of its workflow finds the decision.
C29_EngineDecisionUnblocksSingleton ==
    (lastOp.op = "recordDecision" /\ lastOp.inst = Engine) =>
        \A c \in Callers :
            (callers[c].pc = "suspended" /\ callers[c].id = lastOp.id)
            => /\ Has(approvedRequests[callers[c].inst], lastOp.id)
               /\ approvedRequests[callers[c].inst][lastOp.id] = Val(lastOp.ret)

\* C30: when the decision stored for a request raised by
\* requestApprovalForOutOfScope has approved = false, the awaiting call resolves
\* to a value with approved = false, its requiresOverride being the decision's
\* flag or false when the decision carries none; it is a value, not an exception.
C30_RejectionReturnedAsData ==
    (/\ lastOp.op = "resolve"
     /\ lastOp.inst = Engine
     /\ approvedRequests[Engine][lastOp.id].approved = FALSE)
    => LET decision == approvedRequests[Engine][lastOp.id] IN
       /\ IsDef(lastOp.ret)
       /\ DOMAIN Val(lastOp.ret) = {"approved", "requiresOverride"}
       /\ Val(lastOp.ret).approved = FALSE
       /\ Val(lastOp.ret).requiresOverride =
             (decision.requires_override = Def(TRUE))

\* a call of requestApprovalForOutOfScope resolved to {approved: false,
\* requiresOverride: false} on a rejection that carries no override flag
C30_Witness ==
    /\ lastOp.op = "resolve"
    /\ lastOp.inst = Engine
    /\ approvedRequests[Engine][lastOp.id].approved = FALSE
    /\ approvedRequests[Engine][lastOp.id].requires_override = Undefined
    /\ lastOp.ret = Def([approved |-> FALSE, requiresOverride |-> FALSE])

\* C31: with a working log, each submitForApproval appends exactly one
\* request-only record and each recordDecision appends exactly one record that
\* merges the request fields the pending index holds for the id (none: the id
\* alone) with the decision; a cleared workflow has no records, so k
\* recordDecision calls after a clear leave k records in call order.
C31_OneRecordPerCall ==
    [][/\ lastOp'.op = "submitForApproval" =>
            /\ Has(pendingRequests'[Shared], lastOp'.id)
            /\ log' = Append(log, LogEntry(pendingRequests'[Shared][lastOp'.id],
                                           Undefined))
       /\ lastOp'.op = "recordDecision" =>
            /\ log' = Append(log, LogEntry(RequestContext(lastOp'.inst, lastOp'.id),
                                           lastOp'.ret))
            /\ Len(getAllApprovals') = Len(getAllApprovals) + 1
       /\ lastOp'.op = "clearAllApprovals" => getAllApprovals' = <<>>]_vars

\* three recordDecision calls after a clear left three records in call order,
\* the last one for a request submitted in between
C31_Witness ==
    /\ lastOp.op = "recordDecision"
    /\ Len(log) = 3
    /\ IsDef(log[1].decision) /\ ~IsDef(log[1].change_summary)
    /\ ~IsDef(log[2].decision) /\ IsDef(log[2].change_summary)
    /\ log[3].decision = lastOp.ret
    /\ log[3].request_id = log[2].request_id
    /\ log[3].change_summary = log[2].change_summary

\* C32: createRequest leaves the pending index, the decided index and the log
\* as they were (the request it returns is not pending unless one of its id
\* already was), and no operation changes the fields of a request for as long
\* as the pending index holds it.
C32_CreateRequestIsPure ==
    [][/\ lastOp'.op = "createRequest" =>
            /\ pendingRequests' = pendingRequests
            /\ approvedRequests' = approvedRequests
            /\ log' = log
            /\ Val(lastOp'.ret).request_id = lastOp'.id
            /\ \A i \in Insts :
                  Has(pendingRequests'[i], lastOp'.id) = Has(pendingRequests[i], lastOp'.id)
       /\ \A i \in Insts, id \in RequestIds :
            (Has(pendingRequests[i], id) /\ Has(pendingRequests'[i], id)) =>
                pendingRequests'[i][id] = pendingRequests[i][id]]_vars

\* a request was created while another one was pending and decided: the new one
\* is neither pending nor decided nor in the log
C32_Witness ==
    /\ lastOp.op = "createRequest"
    /\ ~Has(pendingRequests[Shared], lastOp.id)
    /\ ~Has(approvedRequests[Shared], lastOp.id)
    /\ \A k \in DOMAIN log : log[k].request_id # lastOp.id
    /\ \E id \in DOMAIN pendingRequests[Shared] : Has(approvedRequests[Shared], id)

\* C33: the active intent, the order and content of its scope patterns
\* included, changes only in a select_active_intent call that succeeds or in
\* clearSessionIntent (or when the process ends): scope validation, the gate,
\* approval requests, recorded decisions and edits of the registry leave the
\* cached intent as it is.
C33_ActiveIntentChangesOnlyBySelectOrClear ==
    [][currentSessionIntent' # currentSessionIntent =>
          \/ lastOp'.op = "clearSessionIntent"
          \/ lastOp'.op = "restart"
          \/ lastOp'.op = "preHook" /\ Len(lastOp'.ret) = 1]_vars

\* C34: an approval request is created and awaited through the engine only from
\* OutOfScope: an intent is active when requestApprovalForOutOfScope is called,
\* and validateScope reports the request's files as outside that intent's scope;
\* with no active intent no approval request can be submitted.
C34_ApprovalOnlyFromOutOfScope ==
    lastOp.op = "requestApprovalForOutOfScope" =>
        /\ IsDef(currentSessionIntent)
        /\ Has(pendingRequests[Engine], lastOp.id)
        /\ ~validateScope(Val(pendingRequests[Engine][lastOp.id].files_affected)).isWithinScope

\* the records of entries that carry decision for request id
CarriesDecision(entries, id, decision) ==
    \E m \in DOMAIN entries :
        entries[m].request_id = id /\ entries[m].decision = decision

\* C35: getApprovalsByIntent(intentId) returns, in log order, exactly the log
\* records whose intent_id is intentId, and for every request created with that
\* intent id and decided later it includes the record that carries the decision,
\* whether or not the request was pending when the decision was recorded;
\* getApprovalsByTurn does the same for turn ids.
C35_DecisionsFoundByIntentAndTurn ==
    /\ \A intentId \in IntentIds :
          getApprovalsByIntent(intentId) =
             SelectSeq(log, LAMBDA entry : entry.intent_id = Def(intentId))
    /\ getApprovalsByTurn("turn-123") =
          SelectSeq(log, LAMBDA entry : entry.turn_id = Def("turn-123"))
    /\ \A k \in DOMAIN log, j \in DOMAIN log :
          (/\ k < j
           /\ log[k].request_id = log[j].request_id
           /\ IsDef(log[j].decision)) =>
             /\ IsDef(log[k].intent_id) =>
                   CarriesDecision(getApprovalsByIntent(Val(log[k].intent_id)),
                                   log[j].request_id, log[j].decision)
             /\ IsDef(log[k].turn_id) =>
                   CarriesDecision(getApprovalsByTurn(Val(log[k].turn_id)),
                                   log[j].request_id, log[j].decision)

\* C36: with a working log, the decided index of the single workflow equals the
\* map obtained by replaying the log, each id mapped to the decision of its last
\* decision-bearing record: every logged decision is visible through getDecision
\* and every decision visible through getDecision is in the log.
C36_DecidedIndexIsLogReplay ==
    /\ approvedRequests[Shared] = ReplayLog(log, EmptyMap)
    /\ \A id \in RequestIds : getDecision(Shared, id) = LastDecisionIn(log, id)
    /\ \A k \in DOMAIN log :
          IsDef(log[k].decision) => IsDef(getDecision(Shared, log[k].request_id))

\* after a submit and a clearAll (the caller is still suspended, its request no
\* longer pending) two different decisions were recorded for one id
C36_Witness ==
    /\ lastOp.op = "recordDecision"
    /\ \E c \in Callers :
          callers[c].pc = "suspended" /\ ~Has(pendingRequests[Shared], callers[c].id)
    /\ ~OneDecisionPerId(log)
    /\ getDecision(Shared, lastOp.id) = log[Len(log)].decision

\* C37: a select_active_intent call that fails with the Invalid Intent ID error
\* leaves the gate as it was: the intent that was active before the call (or
\* none) is still active, so gatekeeper and validateScope answer as before.
C37_FailedSelectChangesNothing ==
    [][(lastOp'.op = "preHook" /\ lastOp'.ret = InvalidIntentId) =>
          /\ currentSessionIntent' = currentSessionIntent
          /\ \A tool \in Tools : gatekeeper(tool)' = gatekeeper(tool)
          /\ \A paths \in GatePathLists :
                validateScopeWith(currentSessionIntent', paths) = validateScope(paths)
          /\ pendingRequests' = pendingRequests
          /\ approvedRequests' = approvedRequests
          /\ log' = log]_vars

\* INT-002 was selected, the registry was edited so that it no longer holds
\* INT-002, and selecting INT-002 again failed: the intent selected first is
\* still the active one
C37_Witness ==
    /\ lastOp.op = "preHook"
    /\ lastOp.ret = InvalidIntentId
    /\ lastOp.id = "INT-002"
    /\ IsDef(currentSessionIntent)
    /\ Val(currentSessionIntent).id = "INT-002"
    /\ gatekeeper("write_file").allowed

\* the decision stored for id in workflow i after the step
DecisionAfter(i, id) ==
    IF Has(approvedRequests'[i], id) THEN Def(approvedRequests'[i][id]) ELSE Undefined

\* isApproved(id) on workflow i after the step
ApprovedAfter(i, id) ==
    Has(approvedRequests'[i], id) /\ approvedRequests'[i][id].approved = TRUE

\* C38 as written: the decision a suspended caller resumed with is still the
\* decision of record after the next operation, whatever it is short of
\* clearAll: getDecision(id) returns it and isApproved(id) is its approved flag.
C38_ResumedDecisionStaysOfRecord ==
    [][(lastOp.op = "resolve" /\ lastOp'.op # "clearAllApprovals") =>
          /\ DecisionAfter(lastOp.inst, lastOp.id) = lastOp.ret
          /\ ApprovedAfter(lastOp.inst, lastOp.id) = Val(lastOp.ret).approved]_vars

\* C38 as amended: a suspended caller resumes with the decision of record at
\* the time of the poll, which is the last one recorded for its id; that decision
\* stays the decision of record until clearAll or a later recordDecision for the
\* same id, which replaces it with the decision it records.
C38_ResumedDecisionStaysUntilRedecided ==
    [][/\ lastOp'.op = "resolve" =>
            /\ DecisionAfter(lastOp'.inst, lastOp'.id) = lastOp'.ret
            /\ LastDecisionIn(log', lastOp'.id) = lastOp'.ret
            /\ ApprovedAfter(lastOp'.inst, lastOp'.id) = Val(lastOp'.ret).approved
       /\ lastOp.op = "resolve" =>
            \/ lastOp'.op = "clearAllApprovals"
            \/ /\ Records(lastOp.inst, lastOp.id)
               /\ DecisionAfter(lastOp.inst, lastOp.id) = lastOp'.ret
            \/ DecisionAfter(lastOp.inst, lastOp.id) = lastOp.ret
       /\ \A id \in RequestIds :
            (Has(approvedRequests[Shared], id) /\ ~DecisionKept(Shared, id)) =>
                (Records(Shared, id) \/ lastOp'.op = "clearAllApprovals")]_vars

\* a caller was resumed with the rejection of its request; the approval
\* recorded for the same id afterwards is now the decision of record
C38_Witness ==
    /\ lastOp.op = "recordDecision"
    /\ Len(log) = 3
    /\ \A k \in DOMAIN log : log[k].request_id = lastOp.id
    /\ ~IsDef(log[1].decision)
    /\ IsDef(log[2].decision) /\ IsDef(log[2].change_summary)
    /\ ~Val(log[2].decision).approved
    /\ ~IsDef(log[3].change_summary)
    /\ isApproved(Shared, lastOp.id)
    /\ ~Has(pendingRequests[Shared], lastOp.id)

\* the pattern lists that hold the same patterns as list, in any order and with
\* any multiplicity, up to one pattern longer than list
Rearranged(list) ==
    LET patterns == {list[k] : k \in DOMAIN list}
    IN  {other \in UNION {[1..n -> patterns] : n \in 0..(Len(list) + 1)} :
            {other[k] : k \in DOMAIN other} = patterns}

\* C39: the isWithinScope answer of isPathInScope is the same for every order
\* and multiplicity of the patterns, and a path that is within scope stays
\* within scope when a pattern is added to the list, at either end.
C39_PatternOrderIrrelevant ==
    lastOp.op = "isPathInScope" =>
        LET path == lastOp.id[2][1]
            patterns == lastOp.id[3]
            within == Val(lastOp.ret).isWithinScope
        IN  /\ \A other \in Rearranged(patterns) :
                  isPathInScope(path, other).isWithinScope = within
            /\ within =>
                  \A g \in FnPatterns :
                     /\ isPathInScope(path, Append(patterns, g)).isWithinScope
                     /\ isPathInScope(path, <<g>> \o patterns).isWithinScope

\* isPathInScope("src/db/bad.ts", ["src/auth/", "src/db/"]) answered within
\* scope on the second pattern; the first does not match
C39_Witness ==
    /\ lastOp.op = "isPathInScope"
    /\ lastOp.id[2] = <<PathBad>>
    /\ lastOp.id[3] = <<ScopeAuthDir, ScopeDbDir>>
    /\ Val(lastOp.ret).isWithinScope
    /\ ~matchesPattern(PathBad, ScopeAuthDir)
    /\ <<ScopeDbDir, ScopeAuthDir, ScopeDbDir>> \in Rearranged(lastOp.id[3])

\* some caller is suspended in submitForApproval on workflow i for id
SuspendedFor(i, id) ==
    \E c \in Callers :
        callers[c].pc = "suspended" /\ callers[c].inst = i /\ callers[c].id = id

\* C40: in every reachable state a request id is in the pending index of a
\* workflow exactly when some caller is suspended in submitForApproval for that
\* id on it; clearAll leaves no suspended caller whose request is not pending.
C40_PendingIffSuspended ==
    \A i \in Insts, id \in RequestIds :
        IsDef(getPendingRequest(i, id)) <=> SuspendedFor(i, id)

=============================================================================
